---- MODULE Spec2Model ----
(***************************************************************************)
(* Threshold-based decision and metrics engine of the credit-risk API.    *)
(*                                                                         *)
(* The state is the DataService singleton (api/app/services/              *)
(* data_service.py): the pre-processed population table, the in-process    *)
(* result cache with its timestamps, the lru_cache memo of                 *)
(* get_roc_curve_data and the wall clock.  Each public method of the       *)
(* service is one action.                                                  *)
(*                                                                         *)
(* Numbers.  Scores, outcomes and tickets are integers, as the dataset     *)
(* generators produce them.  A threshold and every ratio is an exact       *)
(* rational [num, den]; a ratio whose den is 0 stands for the              *)
(* ZeroDivisionError the division would raise.  Rounded values are kept    *)
(* as integers in units of the last kept decimal (round(x, 1) in tenths,   *)
(* round(x, 2) in hundredths).                                             *)
(***************************************************************************)
EXTENDS Integers, Sequences, FiniteSets, TLC

VARIABLES
    df_preprocessed,  \* [loaded, rows]: loaded = FALSE is df_preprocessed = None
    total_clientes,   \* self.total_clientes
    valor_medio,      \* self.valor_medio, the ratio sum(ticket) / len
    metrics_cache,    \* self._metrics_cache: key -> [data, timestamp]
    roc_memo,         \* the lru_cache(maxsize=1) around get_roc_curve_data
    now,              \* time.time(), in seconds
    budget,           \* calls the run may still make
    ret,              \* the last call: operation, arguments, returned value
    cache_dir,        \* the files of CacheManager: key -> [value, expires_at]
    threads,          \* get_metrics calls in flight, one per thread
    store             \* rate_limit_store: [requests, blocked_ips]

vars == <<df_preprocessed, total_clientes, valor_medio, metrics_cache,
          roc_memo, now, budget, ret, cache_dir, threads, store>>

----------------------------------------------------------------------------
(* Bounds of the model                                                     *)

MaxRecords == 2      \* records of a generated population table
MaxCalls == 2        \* service calls in one run of the service
MaxNow == 300        \* last clock value

(* Program constants                                                       *)

ScoreMin == 300
ScoreMax == 950
CacheTtl == 300
RocPoints == 50
GridPoints == 9

----------------------------------------------------------------------------
(* Rationals                                                               *)

Ratio(n, d) == [num |-> n, den |-> d]

Zero == Ratio(0, 1)

\* a / b of the code; den = 0 is the ZeroDivisionError
Raises(q) == q.den = 0

GE(a, b) == a.num * b.den >= b.num * a.den

LT(a, b) == a.num * b.den < b.num * a.den

\* the division without its guard
UnguardedDiv(n, d) == Ratio(n, d)

\* "n / d if d > 0 else 0": the guard the code puts on every rate
GuardedDiv(n, d) == IF d > 0 THEN Ratio(n, d) ELSE Zero

\* n / d rounded to the nearest integer, ties to even (Python's round)
RoundHalfEven(n, d) ==
    LET q == n \div d
        r == n % d
    IN  IF 2 * r < d THEN q
        ELSE IF 2 * r > d THEN q + 1
        ELSE IF q % 2 = 0 THEN q ELSE q + 1

\* round(q * scale, digits) in units of the last digit; unit = 10^digits.
\* Exact for the tables of this model: a decimal tie needs a denominator
\* divisible by 16, so the binary representation never decides.
RoundTo(q, scale, unit) ==
    IF q.den = 0 THEN 0 ELSE RoundHalfEven(q.num * scale * unit, q.den)

----------------------------------------------------------------------------
(* The population table                                                    *)

ScoreValues == {300, 625, 950}
TicketValues == {100, 300}

RawRecords == [score : ScoreValues, inadimplente : {0, 1}, ticket : TicketValues]

\* the 4-record population of the specification's worked example
ExampleRows ==
    << [score |-> 430, inadimplente |-> 1, ticket |-> 100],
       [score |-> 625, inadimplente |-> 0, ticket |-> 200],
       [score |-> 755, inadimplente |-> 0, ticket |-> 300],
       [score |-> 885, inadimplente |-> 1, ticket |-> 400] >>

\* a defaulter above a good customer, one record on the 0.5 cutoff
MixedRows ==
    << [score |-> 300, inadimplente |-> 0, ticket |-> 100],
       [score |-> 625, inadimplente |-> 0, ticket |-> 300],
       [score |-> 950, inadimplente |-> 1, ticket |-> 100] >>

\* 13 records on which the rounded and the unrounded "balanced" objective
\* order the grid differently: 4 non-defaulters at score 300; a
\* non-defaulter and a defaulter at 625; 4 non-defaulters and 3 defaulters
\* at 950
RoundingRows ==
    [i \in 1..13 |->
        [score |-> IF i <= 4 THEN 300 ELSE IF i <= 6 THEN 625 ELSE 950,
         inadimplente |-> IF i = 6 \/ i >= 11 THEN 1 ELSE 0,
         ticket |-> 100]]

RECURSIVE SeqsUpTo(_, _)
SeqsUpTo(S, n) ==
    IF n = 0 THEN {<<>>}
    ELSE LET shorter == SeqsUpTo(S, n - 1)
         IN  shorter \cup {Append(s, x) : s \in shorter, x \in S}

GeneratedRows == SeqsUpTo(RawRecords, MaxRecords)

RECURSIVE SumCol(_, _, _)
SumCol(rows, mask, col) ==
    IF mask = {} THEN 0
    ELSE LET i == CHOOSE x \in mask : TRUE
         IN  rows[i][col] + SumCol(rows, mask \ {i}, col)

ScoreNormalizado(score) == Ratio(score - ScoreMin, ScoreMax - ScoreMin)

NoTable == [loaded |-> FALSE, rows |-> <<>>]

\* _preprocess_data: the copy with the score_normalizado column
Preprocess(raw) ==
    [loaded |-> TRUE,
     rows |-> [i \in 1..Len(raw) |->
                 [score |-> raw[i].score,
                  inadimplente |-> raw[i].inadimplente,
                  ticket |-> raw[i].ticket,
                  score_normalizado |-> ScoreNormalizado(raw[i].score)]]]

\* float(df["ticket"].mean()); 0 / 0 on an empty table is NaN, no exception
ValorMedio(raw) == Ratio(SumCol(raw, 1..Len(raw), "ticket"), Len(raw))

----------------------------------------------------------------------------
(* Thresholds                                                              *)

\* a threshold given with three decimals, k / 1000
Threshold(k) == Ratio(k * 10, 10000)

\* what the routes accept (Query ge=0.0, le=1.0); 0.499 and 0.501 round to
\* the cache key of 0.5
ThresholdInputs == {Threshold(0), Threshold(499), Threshold(500),
                    Threshold(501), Threshold(1000)}

\* np.linspace(0.1, 0.9, 9)[i - 1].  The third and seventh point are
\* 0.30000000000000004 and 0.7000000000000001: above 0.3 and 0.7 by less
\* than the distance between two normalized integer scores.
GridThreshold(i) ==
    IF i \in {3, 7} THEN Ratio(i * 1000 + 1, 10000)
    ELSE Ratio(i * 1000, 10000)

\* np.linspace(0, 1, 50)[i]
RocThreshold(i) == Ratio(i, RocPoints - 1)

\* round(threshold, 2), in hundredths
Round2(t) == RoundTo(t, 1, 100)

----------------------------------------------------------------------------
(* The result cache                                                        *)

\* the mutant of CacheKey: the method name is left out of the key
CacheKeyNoMethod(method, params) == <<"", params>>

\* _get_cache_key: md5 of "method:json(kwargs)", taken to be injective
CacheKey(method, params) == <<method, params>>

NoData == [none |-> TRUE]

\* the mutant of GetFromCache: nothing is ever found
GetFromCacheNever(cache, key, time) ==
    [found |-> FALSE, data |-> NoData]

\* the mutant of GetFromCache: an entry of exactly the TTL is still served
GetFromCacheInclusive(cache, key, time) ==
    IF key \in DOMAIN cache /\ time - cache[key].timestamp <= CacheTtl
    THEN [found |-> TRUE, data |-> cache[key].data]
    ELSE [found |-> FALSE, data |-> NoData]

\* _get_from_cache: the stored data while younger than the TTL, else None
GetFromCache(cache, key, time) ==
    IF key \in DOMAIN cache /\ time - cache[key].timestamp < CacheTtl
    THEN [found |-> TRUE, data |-> cache[key].data]
    ELSE [found |-> FALSE, data |-> NoData]

\* the mutant of SaveToCache: the time of the save is part of the key
SaveToCacheTimed(cache, key, data, time) ==
    [k \in DOMAIN cache \cup {<<key[1], <<key[2], time>>>>} |->
        IF k = <<key[1], <<key[2], time>>>>
        THEN [data |-> data, timestamp |-> time] ELSE cache[k]]

\* _save_to_cache
SaveToCache(cache, key, data, time) ==
    [k \in DOMAIN cache \cup {key} |->
        IF k = key THEN [data |-> data, timestamp |-> time] ELSE cache[k]]

EmptyCache == [k \in {} |-> NoData]

\* How a call ends: the returned value, the cache it leaves, whether the
\* value came from the cache, whether the call raised.

\* "if cached: return cached"
Hit(data, cache) ==
    [result |-> data, cache |-> cache, hit |-> TRUE, raised |-> FALSE]

\* a return that stores nothing
Unsaved(result, cache) ==
    [result |-> result, cache |-> cache, hit |-> FALSE, raised |-> FALSE]

\* "self._save_to_cache(cache_key, result); return result"
Saved(result, cache, key, time) ==
    [result |-> result, cache |-> SaveToCache(cache, key, result, time),
     hit |-> FALSE, raised |-> FALSE]

\* an exception leaves the method before anything is stored
Raised(cache) ==
    [result |-> NoData, cache |-> cache, hit |-> FALSE, raised |-> TRUE]

----------------------------------------------------------------------------
(* get_metrics                                                             *)

\* the approval mask with a strict comparison
AprovadoMaskStrict(rows, t) ==
    {i \in 1..Len(rows) : ~GE(t, rows[i].score_normalizado)}

\* the approval mask with the comparison inverted
AprovadoMaskInverted(rows, t) ==
    {i \in 1..Len(rows) : GE(t, rows[i].score_normalizado)}

\* df["score_normalizado"] >= threshold, as the set of row indices
AprovadoMask(rows, t) ==
    {i \in 1..Len(rows) : GE(rows[i].score_normalizado, t)}

\* the mutant of Not: every record, whatever the mask
NotEverything(rows, mask) == 1..Len(rows)

\* ~mask
Not(rows, mask) == (1..Len(rows)) \ mask

\* the column mask testing for the other value
ColNe(rows, col, v) == {i \in 1..Len(rows) : rows[i][col] # v}

\* df[col] == v
ColEq(rows, col, v) == {i \in 1..Len(rows) : rows[i][col] = v}

\* the rates with the defaulters counted over the whole table
MetricsRatesUnmasked(rows, total, aprovado_mask) ==
    [taxa_aprovacao |-> GuardedDiv(Cardinality(aprovado_mask) * 100, total),
     taxa_inadimplencia |->
        GuardedDiv(SumCol(rows, 1..Len(rows), "inadimplente") * 100,
                   Cardinality(aprovado_mask))]

\* the two rates of get_metrics before rounding
MetricsRates(rows, total, aprovado_mask) ==
    [taxa_aprovacao |-> GuardedDiv(Cardinality(aprovado_mask) * 100, total),
     taxa_inadimplencia |->
        GuardedDiv(SumCol(rows, aprovado_mask, "inadimplente") * 100,
                   Cardinality(aprovado_mask))]

\* the aggregates of get_metrics over an approval mask
Snapshot(rows, total, vm, t, aprovado_mask) ==
    LET clientes_aprovados == Cardinality(aprovado_mask)
        rates == MetricsRates(rows, total, aprovado_mask)
        receita_aprovados ==
            IF clientes_aprovados > 0
            THEN SumCol(rows, aprovado_mask, "ticket") ELSE 0
        perdas_inadimplentes ==
            SumCol(rows, aprovado_mask \cap ColEq(rows, "inadimplente", 1),
                   "ticket")
    IN  [saldoLiquido |-> receita_aprovados - perdas_inadimplentes,
         taxaAprovacao |-> RoundTo(rates.taxa_aprovacao, 1, 10),
         taxaInadimplencia |-> RoundTo(rates.taxa_inadimplencia, 1, 10),
         totalClientes |-> total,
         clientesAprovados |-> clientes_aprovados,
         clientesRejeitados |-> total - clientes_aprovados,
         receitaTotal |-> receita_aprovados,
         perdasInadimplencia |-> perdas_inadimplentes,
         oportunidadesPerdidas |->
            SumCol(rows, Not(rows, aprovado_mask)
                            \cap ColEq(rows, "inadimplente", 0), "ticket"),
         perdasEvitadas |->
            SumCol(rows, Not(rows, aprovado_mask)
                            \cap ColEq(rows, "inadimplente", 1), "ticket"),
         valorMedio |-> vm,
         threshold |-> t]

\* the snapshot get_metrics computes on a cache miss
ComputeMetrics(rows, total, vm, t) ==
    Snapshot(rows, total, vm, t, AprovadoMask(rows, t))

\* a division of get_metrics that raises ZeroDivisionError
MetricsRaises(rows, total, t) ==
    LET rates == MetricsRates(rows, total, AprovadoMask(rows, t))
    IN  Raises(rates.taxa_aprovacao) \/ Raises(rates.taxa_inadimplencia)

\* _get_empty_metrics
EmptyMetrics ==
    [saldoLiquido |-> 0,
     taxaAprovacao |-> 0,
     taxaInadimplencia |-> 0,
     totalClientes |-> 0,
     clientesAprovados |-> 0,
     clientesRejeitados |-> 0,
     receitaTotal |-> 0,
     perdasInadimplencia |-> 0,
     oportunidadesPerdidas |-> 0,
     perdasEvitadas |-> 0,
     valorMedio |-> Zero,
     threshold |-> Threshold(500)]

\* get_metrics testing only for a missing table, as the other methods do
GetMetricsNoEmptyCheck(tbl, total, vm, cache, time, t) ==
    LET cache_key == CacheKey("metrics", <<Round2(t)>>)
        cached == GetFromCache(cache, cache_key, time)
    IN  IF cached.found THEN Hit(cached.data, cache)
        ELSE IF ~tbl.loaded THEN Unsaved(EmptyMetrics, cache)
        ELSE IF MetricsRaises(tbl.rows, total, t) THEN Raised(cache)
        ELSE Saved(ComputeMetrics(tbl.rows, total, vm, t),
                   cache, cache_key, time)

\* get_metrics(threshold) against a given cache
GetMetrics(tbl, total, vm, cache, time, t) ==
    LET cache_key == CacheKey("metrics", <<Round2(t)>>)
        cached == GetFromCache(cache, cache_key, time)
    IN  IF cached.found THEN Hit(cached.data, cache)
        ELSE IF ~tbl.loaded \/ Len(tbl.rows) = 0
        THEN Unsaved(EmptyMetrics, cache)
        ELSE IF MetricsRaises(tbl.rows, total, t) THEN Raised(cache)
        ELSE Saved(ComputeMetrics(tbl.rows, total, vm, t),
                   cache, cache_key, time)

----------------------------------------------------------------------------
(* get_confusion_matrix                                                    *)

\* the cells with tn counted over the defaulters
ConfusionCellsDoubleCount(rows, t) ==
    LET aprovado_mask == AprovadoMask(rows, t)
        rejeitado_mask == Not(rows, aprovado_mask)
        inadimplente_mask == ColEq(rows, "inadimplente", 1)
        adimplente_mask == ColEq(rows, "inadimplente", 0)
    IN  [tp |-> Cardinality(rejeitado_mask \cap inadimplente_mask),
         fp |-> Cardinality(rejeitado_mask \cap adimplente_mask),
         tn |-> Cardinality(aprovado_mask \cap inadimplente_mask),
         fn |-> Cardinality(aprovado_mask \cap inadimplente_mask)]

\* the cells with "positive" = approved
ConfusionCellsApprovedPositive(rows, t) ==
    LET aprovado_mask == AprovadoMask(rows, t)
        rejeitado_mask == Not(rows, aprovado_mask)
        inadimplente_mask == ColEq(rows, "inadimplente", 1)
        adimplente_mask == ColEq(rows, "inadimplente", 0)
    IN  [tp |-> Cardinality(aprovado_mask \cap adimplente_mask),
         fp |-> Cardinality(aprovado_mask \cap inadimplente_mask),
         tn |-> Cardinality(rejeitado_mask \cap inadimplente_mask),
         fn |-> Cardinality(rejeitado_mask \cap adimplente_mask)]

\* the four cells, "positive" = rejected
ConfusionCells(rows, t) ==
    LET aprovado_mask == AprovadoMask(rows, t)
        rejeitado_mask == Not(rows, aprovado_mask)
        inadimplente_mask == ColEq(rows, "inadimplente", 1)
        adimplente_mask == ColEq(rows, "inadimplente", 0)
    IN  [tp |-> Cardinality(rejeitado_mask \cap inadimplente_mask),
         fp |-> Cardinality(rejeitado_mask \cap adimplente_mask),
         tn |-> Cardinality(aprovado_mask \cap adimplente_mask),
         fn |-> Cardinality(aprovado_mask \cap inadimplente_mask)]

\* 2 * (precision * recall) / (precision + recall), guarded; both over the
\* common denominator precision.den * recall.den
F1Score(precision, recall) ==
    IF Raises(precision) \/ Raises(recall)
    THEN Ratio(0, 0)
    ELSE GuardedDiv(2 * precision.num * recall.num,
                    precision.num * recall.den + recall.num * precision.den)

\* accuracy, precision, recall and f1 before rounding
ConfusionRates(c) ==
    [accuracy |-> GuardedDiv(c.tp + c.tn, c.tp + c.fp + c.tn + c.fn),
     precision |-> GuardedDiv(c.tp, c.tp + c.fp),
     recall |-> GuardedDiv(c.tp, c.tp + c.fn),
     f1_score |-> F1Score(GuardedDiv(c.tp, c.tp + c.fp),
                          GuardedDiv(c.tp, c.tp + c.fn))]

\* the returned matrix: the cells and the rates as rounded percentages
ConfusionResult(c, rates, t) ==
    [tp |-> c.tp,
     fp |-> c.fp,
     tn |-> c.tn,
     fn |-> c.fn,
     accuracy |-> RoundTo(rates.accuracy, 100, 100),
     precision |-> RoundTo(rates.precision, 100, 100),
     recall |-> RoundTo(rates.recall, 100, 100),
     f1_score |-> RoundTo(rates.f1_score, 100, 100),
     threshold |-> t]

ComputeConfusion(rows, t) ==
    LET c == ConfusionCells(rows, t)
    IN  ConfusionResult(c, ConfusionRates(c), t)

\* a division of get_confusion_matrix that raises ZeroDivisionError
RatesRaise(rates) ==
    \/ Raises(rates.accuracy)
    \/ Raises(rates.precision)
    \/ Raises(rates.recall)
    \/ Raises(rates.f1_score)

ConfusionRaises(rows, t) == RatesRaise(ConfusionRates(ConfusionCells(rows, t)))

EmptyConfusion == [tp |-> 0, fp |-> 0, tn |-> 0, fn |-> 0]

GetConfusionMatrix(tbl, cache, time, t) ==
    LET cache_key == CacheKey("confusion_matrix", <<Round2(t)>>)
        cached == GetFromCache(cache, cache_key, time)
    IN  IF cached.found THEN Hit(cached.data, cache)
        ELSE IF ~tbl.loaded THEN Unsaved(EmptyConfusion, cache)
        ELSE IF ConfusionRaises(tbl.rows, t) THEN Raised(cache)
        ELSE Saved(ComputeConfusion(tbl.rows, t), cache, cache_key, time)

----------------------------------------------------------------------------
(* get_roc_curve_data                                                      *)

\* the rejection mask of the sweep with the threshold itself included
RejeitadoMaskInclusive(rows, t) ==
    {i \in 1..Len(rows) : GE(t, rows[i].score_normalizado)}

\* df["score_normalizado"] < threshold, as the set of row indices
RejeitadoMask(rows, t) ==
    {i \in 1..Len(rows) : LT(rows[i].score_normalizado, t)}

\* tp and fp of the ROC sweep at one threshold
RocCounts(rows, t) ==
    LET rejeitado_mask == RejeitadoMask(rows, t)
    IN  [tp |-> Cardinality(rejeitado_mask \cap ColEq(rows, "inadimplente", 1)),
         fp |-> Cardinality(rejeitado_mask \cap ColEq(rows, "inadimplente", 0))]

\* the sequence f[k], ..., f[n] of a function given by its rule, built by
\* halves
RECURSIVE AsSeq(_, _, _)
AsSeq(f, k, n) ==
    IF k > n THEN <<>>
    ELSE IF k = n THEN <<f[k]>>
    ELSE LET mid == (k + n) \div 2
         IN  AsSeq(f, k, mid) \o AsSeq(f, mid + 1, n)

\* np.linspace(0, 1, 50)
RocThresholds ==
    AsSeq([k \in 1..RocPoints |-> RocThreshold(k - 1)], 1, RocPoints)

\* tp and fp at every threshold of the sweep
RocSweep(rows) ==
    AsSeq([k \in 1..RocPoints |-> RocCounts(rows, RocThresholds[k])],
          1, RocPoints)

\* fpr_list and tpr_list
RocRates(counts, total_inadimplentes, total_adimplentes) ==
    [fpr |-> AsSeq([k \in 1..RocPoints |->
                      GuardedDiv(counts[k].fp, total_adimplentes)],
                   1, RocPoints),
     tpr |-> AsSeq([k \in 1..RocPoints |->
                      GuardedDiv(counts[k].tp, total_inadimplentes)],
                   1, RocPoints)]

\* np.argsort(xs): position -> index, equal values in index order
ArgSort(xs) ==
    SortSeq(AsSeq([i \in 1..Len(xs) |-> i], 1, Len(xs)),
            LAMBDA i, j : LT(xs[i], xs[j]) \/ (~LT(xs[j], xs[i]) /\ i < j))

\* [xs[i] for i in indices]
Take(xs, indices) ==
    AsSeq([k \in 1..Len(indices) |-> xs[indices[k]]], 1, Len(indices))

\* the numerator of np.trapz(ys, xs) over the denominator
\* 2 * xs.den * ys.den (every x shares one denominator, and every y)
\* summed over the segments k .. n, by halves
RECURSIVE TrapzNum(_, _, _, _)
TrapzNum(ys, xs, k, n) ==
    IF k >= n THEN 0
    ELSE IF k + 1 = n
    THEN (xs[n].num - xs[k].num) * (ys[n].num + ys[k].num)
    ELSE LET mid == (k + n) \div 2
         IN  TrapzNum(ys, xs, k, mid) + TrapzNum(ys, xs, mid, n)

Abs(n) == IF n < 0 THEN 0 - n ELSE n

\* abs(np.trapz(tpr_sorted, fpr_sorted))
Auc(fpr_list, tpr_list, sorted_indices) ==
    Ratio(Abs(TrapzNum(Take(tpr_list, sorted_indices),
                       Take(fpr_list, sorted_indices), 1, RocPoints)),
          2 * fpr_list[1].den * tpr_list[1].den)

\* the returned curve
RocResult(rates) ==
    [fpr |-> rates.fpr,
     tpr |-> rates.tpr,
     thresholds |-> RocThresholds,
     auc |-> Auc(rates.fpr, rates.tpr, ArgSort(rates.fpr))]

ComputeRoc(rows) ==
    RocResult(RocRates(RocSweep(rows),
                       Cardinality(ColEq(rows, "inadimplente", 1)),
                       Cardinality(ColEq(rows, "inadimplente", 0))))

\* a division of the sweep that raises ZeroDivisionError
RocRaises(roc) ==
    \E k \in 1..RocPoints : Raises(roc.fpr[k]) \/ Raises(roc.tpr[k])

EmptyRoc == [fpr |-> <<>>, tpr |-> <<>>, thresholds |-> <<>>, auc |-> Zero]

\* the end of the body: the curve is stored unless a division raised
RocOutcome(roc, cache, key, time) ==
    IF RocRaises(roc) THEN Raised(cache) ELSE Saved(roc, cache, key, time)

\* the body of get_roc_curve_data, under the lru_cache
RocBody(tbl, cache, time) ==
    LET cache_key == CacheKey("roc_curve", <<>>)
        cached == GetFromCache(cache, cache_key, time)
    IN  IF cached.found THEN Hit(cached.data, cache)
        ELSE IF ~tbl.loaded THEN Unsaved(EmptyRoc, cache)
        ELSE RocOutcome(ComputeRoc(tbl.rows), cache, cache_key, time)

NoMemo == [set |-> FALSE, value |-> NoData]

\* what lru_cache keeps of a call of the body: its value, unless it raised
Memoize(body, memo) ==
    [result |-> body.result, cache |-> body.cache,
     memo |-> IF body.raised THEN memo
              ELSE [set |-> TRUE, value |-> body.result],
     hit |-> body.hit, raised |-> body.raised]

\* get_roc_curve_data: @lru_cache(maxsize=1) keyed by self alone
GetRocCurveData(tbl, cache, memo, time) ==
    IF memo.set
    THEN [result |-> memo.value, cache |-> cache, memo |-> memo,
          hit |-> TRUE, raised |-> FALSE]
    ELSE Memoize(RocBody(tbl, cache, time), memo)

----------------------------------------------------------------------------
(* get_threshold_sensitivity and optimize_threshold                        *)

\* one turn of the loop: the snapshot is appended, the cache is the one
\* the call left
SweepAppend(prev, call) ==
    [metrics |-> Append(prev.metrics, call.result),
     cache |-> call.cache,
     raised |-> call.raised]

\* the n-th turn after the turns before it; a raise ends the loop
SweepTurn(prev, tbl, total, vm, time, n) ==
    IF prev.raised THEN prev
    ELSE SweepAppend(prev, GetMetrics(tbl, total, vm, prev.cache, time,
                                      GridThreshold(n)))

\* get_metrics at the first n grid thresholds in grid order, each call
\* seeing the cache the previous one left
RECURSIVE GridSweep(_, _, _, _, _, _)
GridSweep(tbl, total, vm, cache, time, n) ==
    IF n = 0
    THEN [metrics |-> <<>>, cache |-> cache, raised |-> FALSE]
    ELSE SweepTurn(GridSweep(tbl, total, vm, cache, time, n - 1),
                   tbl, total, vm, time, n)

SensitivityRow(t, metrics) ==
    [threshold |-> Round2(t),
     taxaAprovacao |-> metrics.taxaAprovacao,
     taxaInadimplencia |-> metrics.taxaInadimplencia,
     saldoLiquido |-> metrics.saldoLiquido,
     perdasEvitadas |-> metrics.perdasEvitadas,
     oportunidadesPerdidas |-> metrics.oportunidadesPerdidas]

\* {"data": results}
SensitivityData(metrics) ==
    [data |-> [i \in 1..GridPoints |->
                 SensitivityRow(GridThreshold(i), metrics[i])]]

EmptySensitivity == [thresholds |-> <<>>, metrics |-> <<>>]

\* the end of get_threshold_sensitivity, after the loop
SensitivityOutcome(sweep, key, time) ==
    IF sweep.raised THEN Raised(sweep.cache)
    ELSE Saved(SensitivityData(sweep.metrics), sweep.cache, key, time)

GetThresholdSensitivity(tbl, total, vm, cache, time) ==
    LET cache_key == CacheKey("threshold_sensitivity", <<>>)
        cached == GetFromCache(cache, cache_key, time)
    IN  IF cached.found THEN Hit(cached.data, cache)
        ELSE IF ~tbl.loaded THEN Unsaved(EmptySensitivity, cache)
        ELSE SensitivityOutcome(
                 GridSweep(tbl, total, vm, cache, time, GridPoints),
                 cache_key, time)

Objectives == {"profit", "risk", "balanced", "growth"}

\* the objective with no fallback: an unknown name is worth nothing
ObjectiveValueNoFallback(objective, metrics) ==
    IF objective = "profit" THEN metrics.saldoLiquido
    ELSE IF objective = "risk" THEN 0 - metrics.taxaInadimplencia
    ELSE IF objective = "balanced"
    THEN metrics.taxaAprovacao - (metrics.taxaInadimplencia * 10)
    ELSE 0

\* the value optimize_threshold gives a snapshot: money for "profit" and
\* the fallback, tenths of a percent for "risk" and "balanced"
ObjectiveValue(objective, metrics) ==
    IF objective = "profit" THEN metrics.saldoLiquido
    ELSE IF objective = "risk" THEN 0 - metrics.taxaInadimplencia
    ELSE IF objective = "balanced"
    THEN metrics.taxaAprovacao - (metrics.taxaInadimplencia * 10)
    ELSE metrics.saldoLiquido

\* the list "results" of optimize_threshold
AllResults(objective, metrics) ==
    [i \in 1..GridPoints |->
        [threshold |-> Round2(GridThreshold(i)),
         value |-> ObjectiveValue(objective, metrics[i]),
         metrics |-> metrics[i]]]

\* the scan with "value >= best_value": the last maximum wins
RECURSIVE BestOfNonStrict(_, _)
BestOfNonStrict(results, n) ==
    IF n = 0
    THEN [found |-> FALSE, value |-> 0, threshold |-> Threshold(500)]
    ELSE LET best == BestOfNonStrict(results, n - 1)
         IN  IF ~best.found \/ results[n].value >= best.value
             THEN [found |-> TRUE, value |-> results[n].value,
                   threshold |-> GridThreshold(n)]
             ELSE best

\* the scan "if value > best_value" over the first n results; best_value
\* starts at -inf (found = FALSE) and best_threshold at 0.5
RECURSIVE BestOf(_, _)
BestOf(results, n) ==
    IF n = 0
    THEN [found |-> FALSE, value |-> 0, threshold |-> Threshold(500)]
    ELSE LET best == BestOf(results, n - 1)
         IN  IF ~best.found \/ results[n].value > best.value
             THEN [found |-> TRUE, value |-> results[n].value,
                   threshold |-> GridThreshold(n)]
             ELSE best

\* the dictionary optimize_threshold returns; last is the closing
\* get_metrics(best_threshold)
OptimizeOutcome(results, best, last, objective) ==
    IF last.raised THEN Raised(last.cache)
    ELSE Unsaved([optimal_threshold |-> Round2(best.threshold),
                  objective |-> objective,
                  best_value |-> best.value,
                  metrics |-> last.result,
                  all_results |-> results],
                 last.cache)

\* optimize_threshold after the loop
OptimizeOver(sweep, tbl, total, vm, time, objective) ==
    LET results == AllResults(objective, sweep.metrics)
        best == BestOf(results, GridPoints)
    IN  IF sweep.raised THEN Raised(sweep.cache)
        ELSE OptimizeOutcome(results, best,
                             GetMetrics(tbl, total, vm, sweep.cache, time,
                                        best.threshold),
                             objective)

OptimizeThreshold(tbl, total, vm, cache, time, objective) ==
    IF ~tbl.loaded
    THEN Unsaved([optimal_threshold |-> 50, objective |-> objective], cache)
    ELSE OptimizeOver(GridSweep(tbl, total, vm, cache, time, GridPoints),
                      tbl, total, vm, time, objective)

----------------------------------------------------------------------------
(* The service                                                             *)

\* tables the long-running service is started on
ServiceRows == {<<>>, ExampleRows, MixedRows}

\* tables the single computations are checked on
AllRows == GeneratedRows \cup {ExampleRows, MixedRows, RoundingRows}

\* the clock values a run passes through: the last instant an entry saved
\* at 0 is served from the cache, and the first instant it is expired
Instants == {0, CacheTtl - 1, CacheTtl}

NoCall ==
    [op |-> "none", threshold |-> Zero, objective |-> "",
     result |-> NoData, hit |-> FALSE, raised |-> FALSE]

Returned(op, t, objective, call) ==
    [op |-> op, threshold |-> t, objective |-> objective,
     result |-> call.result, hit |-> call.hit, raised |-> call.raised]

\* DataService.__init__ with load_data finding and reading the file
Loaded(raw) ==
    /\ df_preprocessed = Preprocess(raw)
    /\ total_clientes = Len(raw)
    /\ valor_medio = ValorMedio(raw)

\* DataService.__init__ with load_data finding no file, or failing to
\* read it: df and df_preprocessed stay None
NotLoaded ==
    /\ df_preprocessed = NoTable
    /\ total_clientes = 0
    /\ valor_medio = Zero

\* the cache directory before the first start: no file
NoFiles == [k \in {} |-> NoData]

\* no get_metrics call is in flight
NoThreads == [th \in {} |-> NoData]

\* RateLimitStore.__init__
EmptyStore == [requests |-> [k \in {} |-> <<>>], blocked_ips |-> [k \in {} |-> 0]]

Constructed(calls) ==
    /\ metrics_cache = EmptyCache
    /\ roc_memo = NoMemo
    /\ now = 0
    /\ budget = calls
    /\ ret = NoCall
    /\ cache_dir = NoFiles
    /\ threads = NoThreads
    /\ store = EmptyStore

Init ==
    /\ NotLoaded \/ \E raw \in ServiceRows : Loaded(raw)
    /\ Constructed(MaxCalls)

InitTables ==
    /\ NotLoaded \/ \E raw \in AllRows : Loaded(raw)
    /\ Constructed(1)

get_metrics(t) ==
    /\ budget > 0
    /\ \E call \in {GetMetrics(df_preprocessed, total_clientes, valor_medio,
                               metrics_cache, now, t)} :
          /\ metrics_cache' = call.cache
          /\ ret' = Returned("get_metrics", t, "", call)
    /\ budget' = budget - 1
    /\ UNCHANGED <<df_preprocessed, total_clientes, valor_medio, roc_memo, now,
                   cache_dir, threads, store>>

get_confusion_matrix(t) ==
    /\ budget > 0
    /\ \E call \in {GetConfusionMatrix(df_preprocessed, metrics_cache, now, t)} :
          /\ metrics_cache' = call.cache
          /\ ret' = Returned("get_confusion_matrix", t, "", call)
    /\ budget' = budget - 1
    /\ UNCHANGED <<df_preprocessed, total_clientes, valor_medio, roc_memo, now,
                   cache_dir, threads, store>>

get_roc_curve_data ==
    /\ budget > 0
    /\ \E call \in {GetRocCurveData(df_preprocessed, metrics_cache,
                                    roc_memo, now)} :
          /\ metrics_cache' = call.cache
          /\ roc_memo' = call.memo
          /\ ret' = Returned("get_roc_curve_data", Zero, "", call)
    /\ budget' = budget - 1
    /\ UNCHANGED <<df_preprocessed, total_clientes, valor_medio, now,
                   cache_dir, threads, store>>

get_threshold_sensitivity ==
    /\ budget > 0
    /\ \E call \in {GetThresholdSensitivity(df_preprocessed, total_clientes,
                                            valor_medio, metrics_cache, now)} :
          /\ metrics_cache' = call.cache
          /\ ret' = Returned("get_threshold_sensitivity", Zero, "", call)
    /\ budget' = budget - 1
    /\ UNCHANGED <<df_preprocessed, total_clientes, valor_medio, roc_memo, now,
                   cache_dir, threads, store>>

optimize_threshold(objective) ==
    /\ budget > 0
    /\ \E call \in {OptimizeThreshold(df_preprocessed, total_clientes,
                                      valor_medio, metrics_cache, now,
                                      objective)} :
          /\ metrics_cache' = call.cache
          /\ ret' = Returned("optimize_threshold", Zero, objective, call)
    /\ budget' = budget - 1
    /\ UNCHANGED <<df_preprocessed, total_clientes, valor_medio, roc_memo, now,
                   cache_dir, threads, store>>

clear_cache ==
    /\ budget > 0
    /\ metrics_cache' = EmptyCache
    /\ ret' = [NoCall EXCEPT !.op = "clear_cache"]
    /\ budget' = budget - 1
    /\ UNCHANGED <<df_preprocessed, total_clientes, valor_medio, roc_memo, now,
                   cache_dir, threads, store>>

\* time passes before the next call
Tick(instant) ==
    /\ budget > 0
    /\ now < instant
    /\ instant <= MaxNow
    /\ now' = instant
    /\ UNCHANGED <<df_preprocessed, total_clientes, valor_medio,
                   metrics_cache, roc_memo, budget, ret,
                   cache_dir, threads, store>>

Next ==
    \/ \E t \in ThresholdInputs : get_metrics(t)
    \/ \E t \in ThresholdInputs : get_confusion_matrix(t)
    \/ get_roc_curve_data
    \/ get_threshold_sensitivity
    \/ \E objective \in Objectives : optimize_threshold(objective)
    \/ clear_cache
    \/ \E instant \in Instants : Tick(instant)

Spec == Init /\ [][Next]_vars

SpecTables == InitTables /\ [][Next]_vars

----------------------------------------------------------------------------
(* Properties of the population metrics                                    *)

Rows == df_preprocessed.rows

\* the records whose normalized score (score - 300) / 650 is at least t
AtLeast(t) == {i \in 1..Len(Rows) : (Rows[i].score - 300) * t.den >= 650 * t.num}

\* the records whose normalized score is below t
Below(t) == {i \in 1..Len(Rows) : (Rows[i].score - 300) * t.den < 650 * t.num}

Defaulters == {i \in 1..Len(Rows) : Rows[i].inadimplente = 1}

NonDefaulters == {i \in 1..Len(Rows) : Rows[i].inadimplente = 0}

\* the last call was get_metrics and it computed its result
FreshMetrics == ret.op = "get_metrics" /\ ~ret.hit /\ ~ret.raised

\* C1: a freshly computed get_metrics(t) counts as approved exactly the
\* records with normalized score >= t, a score equal to t included; at
\* t = 1 these are the records of score exactly 1.0 (raw 950), at t = 0
\* all records.
C1_ApprovedCount ==
    FreshMetrics =>
        /\ ret.result.clientesAprovados = Cardinality(AtLeast(ret.threshold))
        /\ ret.threshold = Threshold(1000) =>
              ret.result.clientesAprovados
                  = Cardinality({i \in 1..Len(Rows) : Rows[i].score = 950})
        /\ ret.threshold = Threshold(0) =>
              ret.result.clientesAprovados = Len(Rows)

\* a fresh snapshot with a record exactly on the threshold and one below it
C1_Witness ==
    /\ FreshMetrics
    /\ \E i \in AtLeast(ret.threshold) :
          (Rows[i].score - 300) * ret.threshold.den = 650 * ret.threshold.num
    /\ Below(ret.threshold) # {}
    /\ ret.result.clientesAprovados >= 1

\* C2: whatever calls came before, get_metrics(t) on a loaded population
\* returns the snapshot computed at exactly t: the counts and sums of the
\* mask score >= t, and t in its threshold field.
C2_SnapshotAtRequested ==
    (ret.op = "get_metrics" /\ ~ret.raised /\ Len(Rows) > 0) =>
        /\ ret.result.threshold = ret.threshold
        /\ ret.result.clientesAprovados = Cardinality(AtLeast(ret.threshold))
        /\ ret.result.receitaTotal = SumCol(Rows, AtLeast(ret.threshold), "ticket")

\* C3: every get_metrics result splits the total into approved and
\* rejected, and the four cells of every get_confusion_matrix result add
\* up to the number of records.
C3_Partition ==
    /\ (ret.op = "get_metrics" /\ ~ret.raised) =>
          ret.result.clientesAprovados + ret.result.clientesRejeitados
              = ret.result.totalClientes
    /\ (ret.op = "get_confusion_matrix" /\ ~ret.raised) =>
          ret.result.tp + ret.result.fp + ret.result.tn + ret.result.fn
              = Len(Rows)

\* a confusion matrix served from the cache with all four cells populated
\* or a split with both sides non-empty
C3_Witness ==
    /\ ret.op = "get_confusion_matrix"
    /\ ret.hit
    /\ ret.result.tp > 0
    /\ ret.result.fn > 0
    /\ ret.result.tn > 0

\* C4: a freshly computed get_metrics(t) reports the ticket sums over the
\* approved records, the approved defaulters, the rejected non-defaulters
\* and the rejected defaulters, and their net balance; the worked example
\* at t = 0.5 gives 900, 400, 500, 0, 100 with 3 approved and 1 rejected.
C4_MonetaryAggregates ==
    FreshMetrics =>
        LET t == ret.threshold
            r == ret.result
        IN  /\ r.receitaTotal = SumCol(Rows, AtLeast(t), "ticket")
            /\ r.perdasInadimplencia
                  = SumCol(Rows, AtLeast(t) \cap Defaulters, "ticket")
            /\ r.saldoLiquido = r.receitaTotal - r.perdasInadimplencia
            /\ r.oportunidadesPerdidas
                  = SumCol(Rows, Below(t) \cap NonDefaulters, "ticket")
            /\ r.perdasEvitadas
                  = SumCol(Rows, Below(t) \cap Defaulters, "ticket")
            /\ (df_preprocessed = Preprocess(ExampleRows) /\ t = Threshold(500)) =>
                  /\ r.receitaTotal = 900
                  /\ r.perdasInadimplencia = 400
                  /\ r.saldoLiquido = 500
                  /\ r.oportunidadesPerdidas = 0
                  /\ r.perdasEvitadas = 100
                  /\ r.clientesAprovados = 3
                  /\ r.clientesRejeitados = 1

\* the worked example computed at t = 0.5
C4_Witness ==
    /\ FreshMetrics
    /\ df_preprocessed = Preprocess(ExampleRows)
    /\ ret.threshold = Threshold(500)
    /\ ret.result.saldoLiquido = 500

\* what get_metrics(t) computes on the table of this state
MetricsAt(t) ==
    GetMetrics(df_preprocessed, total_clientes, valor_medio, EmptyCache, now, t).result

\* C5: for a fixed population and t1 < t2, the approval rate computed at
\* t2 is at most the approval rate computed at t1.
C5_ApprovalRateMonotone ==
    FreshMetrics =>
        \A t \in ThresholdInputs :
            /\ LT(t, ret.threshold) =>
                  ret.result.taxaAprovacao <= MetricsAt(t).taxaAprovacao
            /\ LT(ret.threshold, t) =>
                  MetricsAt(t).taxaAprovacao <= ret.result.taxaAprovacao

\* a snapshot whose approval rate is strictly below that of a lower threshold
C5_Witness ==
    /\ FreshMetrics
    /\ \E t \in ThresholdInputs :
          /\ LT(t, ret.threshold)
          /\ ret.result.taxaAprovacao < MetricsAt(t).taxaAprovacao
          /\ ret.result.taxaAprovacao > 0

\* C6 as stated: for a fixed population and t1 < t2, the default rate
\* among approved computed at t2 is at most the one computed at t1.
C6_DefaultRateMonotone ==
    FreshMetrics =>
        \A t \in ThresholdInputs :
            /\ LT(t, ret.threshold) =>
                  ret.result.taxaInadimplencia <= MetricsAt(t).taxaInadimplencia
            /\ LT(ret.threshold, t) =>
                  MetricsAt(t).taxaInadimplencia <= ret.result.taxaInadimplencia

\* the records raising the threshold from t1 to t2 excludes default at a
\* rate at least that of the records approved at t1
ExcludedAtLeastAsRisky(t1, t2) ==
    LET excluded == AtLeast(t1) \ AtLeast(t2)
    IN  Cardinality(excluded \cap Defaulters) * Cardinality(AtLeast(t1))
            >= Cardinality(AtLeast(t1) \cap Defaulters) * Cardinality(excluded)

\* C6 amended: for t1 < t2 the default rate among approved at t2 is at
\* most the one at t1 whenever the records excluded by raising the
\* threshold (t1 <= score < t2) default at a rate at least that of the
\* records approved at t1.
C6_DefaultRateMonotoneWhenExcludedRiskier ==
    FreshMetrics =>
        \A t \in ThresholdInputs :
            /\ (LT(t, ret.threshold) /\ ExcludedAtLeastAsRisky(t, ret.threshold)) =>
                  ret.result.taxaInadimplencia <= MetricsAt(t).taxaInadimplencia
            /\ (LT(ret.threshold, t) /\ ExcludedAtLeastAsRisky(ret.threshold, t)) =>
                  MetricsAt(t).taxaInadimplencia <= ret.result.taxaInadimplencia

\* raising the threshold excluded defaulters, kept some record approved and
\* lowered the default rate
C6_Witness ==
    /\ FreshMetrics
    /\ ret.result.clientesAprovados > 0
    /\ \E t \in ThresholdInputs :
          /\ LT(t, ret.threshold)
          /\ ExcludedAtLeastAsRisky(t, ret.threshold)
          /\ (AtLeast(t) \ AtLeast(ret.threshold)) \cap Defaulters # {}
          /\ ret.result.taxaInadimplencia < MetricsAt(t).taxaInadimplencia

----------------------------------------------------------------------------
(* No data                                                                 *)

NoData_Population == ~df_preprocessed.loaded \/ Len(Rows) = 0

ZeroSnapshot(m) ==
    /\ m.saldoLiquido = 0
    /\ m.taxaAprovacao = 0
    /\ m.taxaInadimplencia = 0
    /\ m.totalClientes = 0
    /\ m.clientesAprovados = 0
    /\ m.clientesRejeitados = 0
    /\ m.receitaTotal = 0
    /\ m.perdasInadimplencia = 0
    /\ m.oportunidadesPerdidas = 0
    /\ m.perdasEvitadas = 0
    /\ m.valorMedio = Zero

ZeroConfusion(c) ==
    /\ c.tp = 0 /\ c.fp = 0 /\ c.tn = 0 /\ c.fn = 0
    /\ "accuracy" \in DOMAIN c =>
          c.accuracy = 0 /\ c.precision = 0 /\ c.recall = 0 /\ c.f1_score = 0

ZeroRoc(r) ==
    /\ r.auc.num = 0 /\ r.auc.den # 0
    /\ Len(r.fpr) = Len(r.tpr)
    /\ \A k \in 1..Len(r.fpr) :
          r.fpr[k].num = 0 /\ r.fpr[k].den # 0 /\ r.tpr[k].num = 0 /\ r.tpr[k].den # 0

ZeroSensitivity(s) ==
    IF "data" \in DOMAIN s
    THEN \A i \in 1..Len(s.data) :
            /\ s.data[i].taxaAprovacao = 0
            /\ s.data[i].taxaInadimplencia = 0
            /\ s.data[i].saldoLiquido = 0
            /\ s.data[i].perdasEvitadas = 0
            /\ s.data[i].oportunidadesPerdidas = 0
    ELSE s.thresholds = <<>> /\ s.metrics = <<>>

ZeroOptimization(o) ==
    "best_value" \in DOMAIN o =>
        /\ o.best_value = 0
        /\ ZeroSnapshot(o.metrics)
        /\ \A i \in 1..Len(o.all_results) :
              o.all_results[i].value = 0 /\ ZeroSnapshot(o.all_results[i].metrics)

----------------------------------------------------------------------------
(* Confusion matrix and ROC                                                *)

FreshConfusion ==
    /\ ret.op = "get_confusion_matrix"
    /\ ~ret.hit
    /\ ~ret.raised
    /\ df_preprocessed.loaded

\* C8: get_confusion_matrix counts rejected as positive: tp = defaulters
\* with score < t, fp = non-defaulters with score < t, tn = non-defaulters
\* with score >= t, fn = defaulters with score >= t.
C8_RejectedIsPositive ==
    FreshConfusion =>
        /\ ret.result.tp = Cardinality(Below(ret.threshold) \cap Defaulters)
        /\ ret.result.fp = Cardinality(Below(ret.threshold) \cap NonDefaulters)
        /\ ret.result.tn = Cardinality(AtLeast(ret.threshold) \cap NonDefaulters)
        /\ ret.result.fn = Cardinality(AtLeast(ret.threshold) \cap Defaulters)

\* a matrix whose tp and tn differ from each other and fp from fn
C8_Witness ==
    /\ FreshConfusion
    /\ ret.result.tp > 0
    /\ ret.result.tn = 0
    /\ ret.result.fp + ret.result.fn > 0

FreshRoc ==
    /\ ret.op = "get_roc_curve_data"
    /\ ~ret.hit
    /\ ~ret.raised
    /\ df_preprocessed.loaded

\* C9: no rate divides by zero; a ratio whose denominator is 0 is
\* reported as 0 and the call returns instead of raising.
C9_GuardedRatios ==
    /\ ret.op \in {"get_metrics", "get_confusion_matrix", "get_roc_curve_data"}
          => ~ret.raised
    /\ ret.op = "get_metrics" =>
          /\ ret.result.totalClientes = 0 => ret.result.taxaAprovacao = 0
          /\ ret.result.clientesAprovados = 0 => ret.result.taxaInadimplencia = 0
    /\ FreshConfusion =>
          LET c == ret.result
          IN  /\ c.tp + c.fp + c.tn + c.fn = 0 => c.accuracy = 0
              /\ c.tp + c.fp = 0 => c.precision = 0
              /\ c.tp + c.fn = 0 => c.recall = 0
              /\ c.tp = 0 => c.f1_score = 0
    /\ FreshRoc =>
          /\ Defaulters = {} =>
                \A k \in 1..Len(ret.result.tpr) :
                    ret.result.tpr[k].num = 0 /\ ret.result.tpr[k].den # 0
          /\ NonDefaulters = {} =>
                \A k \in 1..Len(ret.result.fpr) :
                    ret.result.fpr[k].num = 0 /\ ret.result.fpr[k].den # 0

\* a matrix over a non-empty table in which nothing is rejected, so that
\* precision and f1 have a zero denominator
C9_Witness ==
    /\ FreshConfusion
    /\ Len(Rows) > 0
    /\ ret.result.tp + ret.result.fp = 0
    /\ ret.result.precision = 0
    /\ ret.result.f1_score = 0

\* a / b = c / d
SameRatio(a, b) == a.num * b.den = b.num * a.den

\* C10: get_roc_curve_data returns 50 points on the evenly spaced grid
\* k / 49; at each grid threshold the records counted as rejected are the
\* complement of those approved there, so tp and fp are the cells of
\* get_confusion_matrix at that threshold, tpr = tp / defaulters and
\* fpr = fp / non-defaulters (0 when there are none).
C10_RocMatchesConfusion ==
    FreshRoc =>
        /\ Len(ret.result.thresholds) = 50
        /\ Len(ret.result.fpr) = 50
        /\ Len(ret.result.tpr) = 50
        /\ \A k \in 1..50 :
              LET t == ret.result.thresholds[k]
                  cells == GetConfusionMatrix(df_preprocessed, EmptyCache,
                                              now, t).result
              IN  /\ t.num * 49 = (k - 1) * t.den
                  /\ Below(t) = (1..Len(Rows)) \ AtLeast(t)
                  /\ IF Defaulters = {} THEN ret.result.tpr[k].num = 0
                     ELSE SameRatio(ret.result.tpr[k],
                                    Ratio(cells.tp, Cardinality(Defaulters)))
                  /\ IF NonDefaulters = {} THEN ret.result.fpr[k].num = 0
                     ELSE SameRatio(ret.result.fpr[k],
                                    Ratio(cells.fp, Cardinality(NonDefaulters)))

\* a curve over a table with both classes and a score on a grid threshold
C10_Witness ==
    /\ FreshRoc
    /\ Defaulters # {}
    /\ NonDefaulters # {}
    /\ \E i \in 1..Len(Rows) : Rows[i].score = 950
    /\ \E k \in 1..50 : ret.result.tpr[k].num > 0 /\ ret.result.fpr[k].num = 0

----------------------------------------------------------------------------
(* Area under the ROC curve                                                *)

\* every defaulter's score is strictly below every non-defaulter's, and
\* both classes are present
PerfectlySeparated ==
    /\ Defaulters # {}
    /\ NonDefaulters # {}
    /\ \A i \in Defaulters : \A j \in NonDefaulters :
          Rows[i].score < Rows[j].score

\* C11: on a population whose scores perfectly separate the classes, the
\* auc get_roc_curve_data computes is 1.0 up to the grid resolution: at
\* least 1 - 1/49.
C11_PerfectSeparationAuc ==
    (FreshRoc /\ PerfectlySeparated) =>
        ret.result.auc.num * (RocPoints - 1)
            >= (RocPoints - 2) * ret.result.auc.den

----------------------------------------------------------------------------
(* The optimizer                                                           *)

\* the last call was optimize_threshold on a loaded table
Optimized ==
    /\ ret.op = "optimize_threshold"
    /\ ~ret.raised
    /\ "best_value" \in DOMAIN ret.result

\* the first grid point whose value in the result table is the maximum
FirstMaximum(rows) ==
    CHOOSE i \in 1..GridPoints :
        /\ \A j \in 1..GridPoints : rows[j].value <= rows[i].value
        /\ \A j \in 1..(i - 1) : rows[j].value < rows[i].value

\* C12: optimize_threshold returns the grid threshold whose objective
\* value is the maximum over the 9-point grid, the lowest one when several
\* reach the maximum, and best_value is that maximum; the values are those
\* of the objective on the snapshot of each grid threshold.
C12_OptimumIsFirstMaximum ==
    Optimized =>
        LET rows == ret.result.all_results
        IN  /\ \A i \in 1..GridPoints :
                  /\ rows[i].threshold = Round2(GridThreshold(i))
                  /\ rows[i].value
                        = ObjectiveValue(ret.objective,
                                         MetricsAt(GridThreshold(i)))
            /\ ret.result.optimal_threshold
                  = Round2(GridThreshold(FirstMaximum(rows)))
            /\ ret.result.best_value = rows[FirstMaximum(rows)].value

\* the maximum is reached at several grid points, none of them the first
\* of the grid
C12_Witness ==
    /\ Optimized
    /\ ret.result.optimal_threshold > Round2(GridThreshold(1))
    /\ \E i, j \in 1..GridPoints :
          /\ i < j
          /\ ret.result.all_results[i].value = ret.result.best_value
          /\ ret.result.all_results[j].value = ret.result.best_value

\* the objective of optimize_threshold on the unrounded rates of the
\* snapshot at t, as an exact ratio: -default_rate for "risk",
\* approval_rate - 10 * default_rate for "balanced" (rates in percent)
ExactObjective(objective, t) ==
    LET approved == Cardinality(AtLeast(t))
        defaulted == Cardinality(AtLeast(t) \cap Defaulters)
    IN  IF approved = 0 THEN Zero
        ELSE IF objective = "risk" THEN Ratio(0 - 100 * defaulted, approved)
        ELSE Ratio(100 * approved * approved - 1000 * defaulted * Len(Rows),
                   Len(Rows) * approved)

\* the first grid point whose unrounded objective is the maximum
FirstExactMaximum(objective) ==
    CHOOSE i \in 1..GridPoints :
        /\ \A j \in 1..GridPoints :
              ~LT(ExactObjective(objective, GridThreshold(i)),
                  ExactObjective(objective, GridThreshold(j)))
        /\ \A j \in 1..(i - 1) :
              LT(ExactObjective(objective, GridThreshold(j)),
                 ExactObjective(objective, GridThreshold(i)))

\* C13: for "risk" and "balanced", the threshold optimize_threshold
\* selects is the one that maximizes the objective on the unrounded
\* rates, and two grid thresholds get the same value only when their
\* unrounded objectives are equal.
C13_FullPrecisionSelection ==
    (Optimized /\ ret.objective \in {"risk", "balanced"}) =>
        /\ ret.result.optimal_threshold
              = Round2(GridThreshold(FirstExactMaximum(ret.objective)))
        /\ \A i, j \in 1..GridPoints :
              ret.result.all_results[i].value = ret.result.all_results[j].value
                  => SameRatio(ExactObjective(ret.objective, GridThreshold(i)),
                               ExactObjective(ret.objective, GridThreshold(j)))

\* the objective names optimize_threshold tells apart
KnownObjectives == {"profit", "risk", "balanced"}

\* C14: a call of optimize_threshold with an objective name other than
\* "profit", "risk" and "balanced" does not raise, and returns what
\* optimize_threshold("profit") returns from the same table, cache and
\* instant, the echoed objective name aside; it leaves the same cache.
C14_UnknownObjectiveIsProfit ==
    [][(/\ budget' = budget - 1
        /\ ret'.op = "optimize_threshold"
        /\ ret'.objective \notin KnownObjectives)
       => \E profit \in {OptimizeThreshold(df_preprocessed, total_clientes,
                                           valor_medio, metrics_cache, now,
                                           "profit")} :
             /\ ~ret'.raised
             /\ ret'.result
                   = [profit.result EXCEPT !.objective = ret'.objective]
             /\ metrics_cache' = profit.cache]_vars

\* an unknown objective has been optimized over a populated table after
\* an earlier call, with a best value other than 0
C14_Witness ==
    /\ Optimized
    /\ ret.objective \notin KnownObjectives
    /\ budget = 0
    /\ ret.result.best_value > 0
    /\ ret.result.metrics.clientesAprovados > 0

\* C15: every call of optimize_threshold, with the population loaded or
\* not, returns a record with optimal_threshold in [0, 1], objective,
\* best_value, metrics and all_results; metrics is the snapshot of the
\* optimal threshold and all_results has one row per grid threshold in
\* ascending order.
C15_OptimizeRecord ==
    ret.op = "optimize_threshold" =>
        /\ ~ret.raised
        /\ {"optimal_threshold", "objective", "best_value", "metrics",
            "all_results"} \subseteq DOMAIN ret.result
        /\ ret.result.optimal_threshold \in 0..100
        /\ ret.result.objective = ret.objective
        /\ DOMAIN ret.result.all_results = 1..GridPoints
        /\ \A i \in 1..GridPoints :
              /\ ret.result.all_results[i].threshold = Round2(GridThreshold(i))
              /\ ret.result.all_results[i].threshold
                    = ret.result.optimal_threshold
                 => ret.result.metrics = ret.result.all_results[i].metrics
        /\ \A i \in 1..(GridPoints - 1) :
              ret.result.all_results[i].threshold
                  < ret.result.all_results[i + 1].threshold

\* ---------------------------------------------------------------------
\* Credit policy functions: ModelService._get_recommendation and
\* scripts/classify_risk_BACEN.py. They are stateless; a call leaves its
\* argument and its result in ret.
\*
\* A probability is a double. units counts ten-thousandths: the double
\* nearest units / 10000, which is what the literals 0.005, 0.10, 0.30 ...
\* of the code denote. above marks the next double above that one.

MaxProbability == 10100

Probability(units, above) == [units |-> units, above |-> above]

\* the band limits of both policies, in ten-thousandths
Cutoffs == {50, 100, 300, 1000, 3000, 5000, 7000, 10000}

Probabilities ==
    {Probability(k * 100, FALSE) : k \in 0..(MaxProbability \div 100)}
        \cup {Probability(MaxProbability, FALSE)}
        \cup {Probability(b + d, FALSE) : b \in Cutoffs, d \in {-1, 0, 1}}
        \cup {Probability(b, TRUE) : b \in Cutoffs}

\* p <= limit, limit a literal of ten-thousandths
AtMost(p, limit) ==
    p.units < limit \/ (p.units = limit /\ ~p.above)

\* the mutant of AtMost: the limit itself falls in the next band
AtMostExclusive(p, limit) ==
    p.units < limit

\* probability * 100 in double arithmetic, kept in the same units. The
\* product of the double above 0.7 rounds to 70.0 exactly; at every
\* other band limit the product of the double above stays above.
ProbPercent(p) ==
    Probability(p.units, p.above /\ p.units # 7000)

\* the mutant of GetRecommendation: the cutoffs are exclusive
GetRecommendationExclusive(p) ==
    IF AtMostExclusive(p, 1000) THEN "Aprovar"
    ELSE IF AtMostExclusive(p, 3000) THEN "Revisar"
    ELSE "Negar"

\* _get_recommendation
GetRecommendation(p) ==
    IF AtMost(p, 1000) THEN "Aprovar"
    ELSE IF AtMost(p, 3000) THEN "Revisar"
    ELSE "Negar"

\* one result of classify_risk_bacen; provisao in tenths of a percent
Tier(nivel, decisao, provisao, cor) ==
    [nivel_bacen |-> nivel, decisao |-> decisao, provisao |-> provisao,
     cor |-> cor]

\* classify_risk_bacen over prob_percent
TierOf(prob_percent) ==
    IF AtMost(prob_percent, 50) THEN Tier("AA", "Aprovar", 0, "verde")
    ELSE IF AtMost(prob_percent, 100) THEN Tier("A", "Aprovar", 5, "verde")
    ELSE IF AtMost(prob_percent, 300) THEN Tier("B", "Aprovar", 10, "verde")
    ELSE IF AtMost(prob_percent, 1000) THEN Tier("C", "Revisar", 30, "amarelo")
    ELSE IF AtMost(prob_percent, 3000)
        THEN Tier("D", "Revisar com Restrições", 100, "laranja")
    ELSE IF AtMost(prob_percent, 5000) THEN Tier("E", "Negar", 300, "vermelho")
    ELSE IF AtMost(prob_percent, 7000) THEN Tier("F", "Negar", 500, "vermelho")
    ELSE IF AtMost(prob_percent, 10000) THEN Tier("G", "Negar", 700, "vermelho")
    ELSE Tier("H", "Negar", 1000, "vermelho")

ClassifyRiskBacen(p) == TierOf(ProbPercent(p))

\* classify_risk_simple
ClassifyRiskSimple(p) ==
    IF AtMost(ProbPercent(p), 1000) THEN "Aprovado - Baixo Risco"
    ELSE IF AtMost(ProbPercent(p), 3000) THEN "Atenção - Risco Moderado"
    ELSE "Reprovado - Alto Risco"

PolicyCall(op, p, result) ==
    [op |-> op, probability |-> p, result |-> result, raised |-> FALSE]

get_recommendation(p) ==
    /\ ret' = PolicyCall("_get_recommendation", p, GetRecommendation(p))
    /\ UNCHANGED <<df_preprocessed, total_clientes, valor_medio,
                   metrics_cache, roc_memo, now, budget,
                   cache_dir, threads, store>>

classify_risk_bacen(p) ==
    /\ ret' = PolicyCall("classify_risk_bacen", p, ClassifyRiskBacen(p))
    /\ UNCHANGED <<df_preprocessed, total_clientes, valor_medio,
                   metrics_cache, roc_memo, now, budget,
                   cache_dir, threads, store>>

classify_risk_simple(p) ==
    /\ ret' = PolicyCall("classify_risk_simple", p, ClassifyRiskSimple(p))
    /\ UNCHANGED <<df_preprocessed, total_clientes, valor_medio,
                   metrics_cache, roc_memo, now, budget,
                   cache_dir, threads, store>>

\* ---------------------------------------------------------------------
\* RateLimitConfig

DEFAULT_LIMIT == 100

Limit(requests, window, block_duration) ==
    [requests |-> requests, window |-> window,
     block_duration |-> block_duration]

\* the dict, in the order of its entries
ENDPOINT_LIMITS ==
    << [pattern |-> "/api/v1/predict", config |-> Limit(60, 60, 15)],
       [pattern |-> "/api/v1/predict/batch", config |-> Limit(10, 60, 30)],
       [pattern |-> "/api/v1/auth/token", config |-> Limit(5, 300, 60)],
       [pattern |-> "/api/v1/auth/login", config |-> Limit(5, 300, 60)] >>

\* pattern in endpoint, on strings
Contains(pattern, endpoint) ==
    \E i \in 1..(Len(endpoint) - Len(pattern) + 1) :
        SubSeq(endpoint, i, i + Len(pattern) - 1) = pattern

Matching(endpoint) ==
    {i \in 1..Len(ENDPOINT_LIMITS) :
        Contains(ENDPOINT_LIMITS[i].pattern, endpoint)}

\* the first entry whose pattern occurs in the endpoint, else the default
GetLimit(endpoint) ==
    IF Matching(endpoint) = {}
        THEN Limit(DEFAULT_LIMIT, 60, 15)
        ELSE ENDPOINT_LIMITS[CHOOSE i \in Matching(endpoint) :
                                \A j \in Matching(endpoint) : i <= j].config

RequestPaths ==
    {"/api/v1/predict", "/api/v1/predict/batch", "/api/v1/auth/token",
     "/api/v1/auth/login", "/api/v1/metrics", "/api/unknown", "/health"}

get_limit(endpoint) ==
    /\ ret' = [op |-> "get_limit", endpoint |-> endpoint,
               result |-> GetLimit(endpoint), raised |-> FALSE]
    /\ UNCHANGED <<df_preprocessed, total_clientes, valor_medio,
                   metrics_cache, roc_memo, now, budget,
                   cache_dir, threads, store>>

\* ---------------------------------------------------------------------
\* ModelService._calculate_confidence. The confidence is kept in
\* twenty-thousandths, which holds 0.5 * |p - 0.35| exactly for a
\* probability of whole ten-thousandths; the last place of the double
\* sum is not kept.

ConfidenceInputs ==
    Probabilities
        \cup {Probability(b + d, FALSE) : b \in {2000, 3500}, d \in {-1, 0, 1}}
        \cup {Probability(2000, TRUE), Probability(3500, TRUE)}

\* p < limit and p > limit, limit a literal of ten-thousandths
LessThan(p, limit) == p.units < limit

MoreThan(p, limit) == p.units > limit \/ (p.units = limit /\ p.above)

Min(a, b) == IF a <= b THEN a ELSE b

\* the mutant of Confidence: the result is not capped at 1.0
ConfidenceUncapped(p) ==
    IF LessThan(p, 2000) THEN 16000 + 2 * (2000 - p.units)
    ELSE IF MoreThan(p, 5000) THEN 16000 + 2 * (p.units - 5000)
    ELSE 12000 + Abs(p.units - 3500)

\* _calculate_confidence
Confidence(p) ==
    Min(IF LessThan(p, 2000) THEN 16000 + 2 * (2000 - p.units)
        ELSE IF MoreThan(p, 5000) THEN 16000 + 2 * (p.units - 5000)
        ELSE 12000 + Abs(p.units - 3500),
        20000)

calculate_confidence(p) ==
    /\ ret' = PolicyCall("_calculate_confidence", p, Confidence(p))
    /\ UNCHANGED <<df_preprocessed, total_clientes, valor_medio,
                   metrics_cache, roc_memo, now, budget,
                   cache_dir, threads, store>>

\* ---------------------------------------------------------------------
\* The stateless functions, called in any order with any argument

NextPolicy ==
    \/ \E p \in Probabilities : get_recommendation(p)
    \/ \E p \in Probabilities : classify_risk_bacen(p)
    \/ \E p \in Probabilities : classify_risk_simple(p)
    \/ \E p \in ConfidenceInputs : calculate_confidence(p)
    \/ \E endpoint \in RequestPaths : get_limit(endpoint)

\* no call yet; the functions read nothing of the data service
InitPolicy ==
    /\ NotLoaded
    /\ Constructed(MaxCalls)

SpecPolicy == InitPolicy /\ [][NextPolicy]_vars

\* ---------------------------------------------------------------------
\* Claims about the credit policies

\* the order of the doubles the model draws
Place(p) == 2 * p.units + (IF p.above THEN 1 ELSE 0)

InUnitInterval(p) == 0 <= Place(p) /\ Place(p) <= 20000

\* C16: for every probability p in [0,1] the three-tier policy returns
\* exactly one decision: "Aprovar" iff p <= 0.10, "Revisar" iff
\* 0.10 < p <= 0.30, "Negar" iff p > 0.30.
C16_ThreeTierDecision ==
    (ret.op = "_get_recommendation" /\ InUnitInterval(ret.probability)) =>
        /\ ret.result \in {"Aprovar", "Revisar", "Negar"}
        /\ ret.result = "Aprovar" <=> Place(ret.probability) <= 2000
        /\ ret.result = "Revisar" <=>
              (2000 < Place(ret.probability) /\ Place(ret.probability) <= 6000)
        /\ ret.result = "Negar" <=> Place(ret.probability) > 6000

C16_Witness ==
    /\ ret.op = "_get_recommendation"
    /\ ret.probability = Probability(3000, FALSE)
    /\ ret.result = "Revisar"

\* the band of the regulatory scale a probability lies in, with its
\* provisioning in tenths of a percent
Band(p) ==
    IF Place(p) <= 100 THEN [nivel |-> "AA", provisao |-> 0]
    ELSE IF Place(p) <= 200 THEN [nivel |-> "A", provisao |-> 5]
    ELSE IF Place(p) <= 600 THEN [nivel |-> "B", provisao |-> 10]
    ELSE IF Place(p) <= 2000 THEN [nivel |-> "C", provisao |-> 30]
    ELSE IF Place(p) <= 6000 THEN [nivel |-> "D", provisao |-> 100]
    ELSE IF Place(p) <= 10000 THEN [nivel |-> "E", provisao |-> 300]
    ELSE IF Place(p) <= 14000 THEN [nivel |-> "F", provisao |-> 500]
    ELSE IF Place(p) <= 20000 THEN [nivel |-> "G", provisao |-> 700]
    ELSE [nivel |-> "H", provisao |-> 1000]

\* C17: classify_risk_bacen assigns tiers by bands with inclusive upper
\* bounds 0.005, 0.01, 0.03, 0.10, 0.30, 0.50, 0.70, 1.00 (AA .. G, else
\* H), with provisioning 0, 0.5, 1, 3, 10, 30, 50, 70, 100 percent, and
\* a lower probability never gets a greater provisioning.
C17_BandsAndProvisioning ==
    ret.op = "classify_risk_bacen" =>
        /\ ret.result.nivel_bacen = Band(ret.probability).nivel
        /\ ret.result.provisao = Band(ret.probability).provisao
        /\ \A q \in Probabilities :
              Place(q) < Place(ret.probability) =>
                  ClassifyRiskBacen(q).provisao <= ret.result.provisao

\* C18: for every probability p in [0,1] the three-tier decision and the
\* nine-tier classification agree: Aprovar exactly on tiers AA, A, B, C,
\* Revisar exactly on tier D, Negar exactly on tiers E, F, G, H, and the
\* decisao of the nine-tier result is an approval whenever the
\* three-tier decision is Aprovar and a denial whenever it is Negar.
C18_PoliciesAgree ==
    (ret.op = "_get_recommendation" /\ InUnitInterval(ret.probability)) =>
        \E tier \in {ClassifyRiskBacen(ret.probability)} :
            /\ ret.result = "Aprovar" <=>
                  tier.nivel_bacen \in {"AA", "A", "B", "C"}
            /\ ret.result = "Revisar" <=> tier.nivel_bacen = "D"
            /\ ret.result = "Negar" <=>
                  tier.nivel_bacen \in {"E", "F", "G", "H"}
            /\ ret.result = "Aprovar" => tier.decisao = "Aprovar"
            /\ ret.result = "Negar" => tier.decisao = "Negar"

\* ---------------------------------------------------------------------
\* The routes /api/v1/metrics and /api/v1/analysis/confusion_matrix, and
\* the data service called with any threshold

\* thresholds a caller can send: the valid ones, -0.5 and 1.5
ThresholdRequests == ThresholdInputs \cup {Threshold(-500), Threshold(1500)}

\* Query(default=0.5, ge=0.0, le=1.0)
QueryAccepts(t) == GE(t, Zero) /\ GE(Threshold(1000), t)

\* the response of a route: 200 with the service's result, 500 when the
\* service raised, 422 when the query parameter was refused
Response(op, t, status, result, hit) ==
    [op |-> op, threshold |-> t, objective |-> "", result |-> result,
     hit |-> hit, raised |-> FALSE, status |-> status]

Answered(op, t, call) ==
    IF call.raised THEN Response(op, t, 500, NoData, FALSE)
    ELSE Response(op, t, 200, call.result, call.hit)

Refused(op, t) == Response(op, t, 422, NoData, FALSE)

\* routes/metrics.py get_metrics_root
get_metrics_root(t) ==
    /\ budget > 0
    /\ IF QueryAccepts(t)
       THEN \E call \in {GetMetrics(df_preprocessed, total_clientes,
                                    valor_medio, metrics_cache, now, t)} :
               /\ metrics_cache' = call.cache
               /\ ret' = Answered("get_metrics_root", t, call)
       ELSE /\ metrics_cache' = metrics_cache
            /\ ret' = Refused("get_metrics_root", t)
    /\ budget' = budget - 1
    /\ UNCHANGED <<df_preprocessed, total_clientes, valor_medio, roc_memo, now,
                   cache_dir, threads, store>>

\* routes/analysis.py get_confusion_matrix, the route /confusion_matrix
confusion_matrix(t) ==
    /\ budget > 0
    /\ IF QueryAccepts(t)
       THEN \E call \in {GetConfusionMatrix(df_preprocessed, metrics_cache,
                                            now, t)} :
               /\ metrics_cache' = call.cache
               /\ ret' = Answered("confusion_matrix", t, call)
       ELSE /\ metrics_cache' = metrics_cache
            /\ ret' = Refused("confusion_matrix", t)
    /\ budget' = budget - 1
    /\ UNCHANGED <<df_preprocessed, total_clientes, valor_medio, roc_memo, now,
                   cache_dir, threads, store>>

NextRequests ==
    \/ \E t \in ThresholdRequests : get_metrics_root(t)
    \/ \E t \in ThresholdRequests : confusion_matrix(t)
    \/ \E t \in ThresholdRequests : get_metrics(t)
    \/ \E t \in ThresholdRequests : get_confusion_matrix(t)
    \/ clear_cache
    \/ \E instant \in Instants : Tick(instant)

SpecRequests == Init /\ [][NextRequests]_vars

RoutesRefuseOutOfRange ==
    [][(/\ budget' = budget - 1
        /\ ret'.op \in {"get_metrics_root", "confusion_matrix"}
        /\ (LT(ret'.threshold, Zero) \/ LT(Threshold(1000), ret'.threshold)))
       => /\ ret'.status = 422
          /\ ret'.result = NoData
          /\ metrics_cache' = metrics_cache]_vars

\* the ENDPOINT_LIMITS entry written for a path, if there is one
WrittenFor(endpoint) ==
    {i \in 1..Len(ENDPOINT_LIMITS) : ENDPOINT_LIMITS[i].pattern = endpoint}

\* C20: get_limit returns, for every request path, the configuration of
\* the ENDPOINT_LIMITS entry written for that endpoint (60 / 60 s / 15 min
\* for /api/v1/predict, 10 / 60 s / 30 min for /api/v1/predict/batch,
\* 5 / 300 s / 60 min for /api/v1/auth/token), and the default
\* 100 requests / 60 s for a path matching no entry.
C20_LimitOfEndpoint ==
    ret.op = "get_limit" =>
        /\ \A i \in WrittenFor(ret.endpoint) :
              ret.result = ENDPOINT_LIMITS[i].config
        /\ ret.endpoint = "/api/v1/predict" => ret.result = Limit(60, 60, 15)
        /\ ret.endpoint = "/api/v1/predict/batch" =>
              ret.result = Limit(10, 60, 30)
        /\ ret.endpoint = "/api/v1/auth/token" => ret.result = Limit(5, 300, 60)
        /\ Matching(ret.endpoint) = {} =>
              (ret.result.requests = 100 /\ ret.result.window = 60)

\* ---------------------------------------------------------------------
\* Claims about the result cache

\* the cache method name of a service operation
MethodOf(op) == IF op = "get_metrics" THEN "metrics" ELSE "confusion_matrix"

KeyedCalls == {"get_metrics", "get_confusion_matrix"}

\* the call just made is a get_metrics or get_confusion_matrix call
KeyedCall ==
    /\ budget' = budget - 1
    /\ ret'.op \in KeyedCalls

\* a result of the operation, computed for a threshold that rounds to
\* the same two decimals as t
ResultFor(op, t, result) ==
    /\ ("tp" \in DOMAIN result) <=> (op = "get_confusion_matrix")
    /\ ("clientesAprovados" \in DOMAIN result) <=> (op = "get_metrics")
    /\ Round2(result.threshold) = Round2(t)

KeyOfCall(call) ==
    IF call.op = "get_threshold_sensitivity"
    THEN <<"threshold_sensitivity", <<>>>>
    ELSE <<MethodOf(call.op), <<Round2(call.threshold)>>>>

ReadingCalls == KeyedCalls \cup {"get_threshold_sensitivity"}

\* C22: an entry saved at time s is returned by a read at any time before
\* s + 300 and never by a read at s + 300 or later; expiry is checked
\* only at read time, an expired read is a miss that leads to
\* recomputation, and the recomputed result replaces the expired entry
\* under the same key.
C22_LazyExpiry ==
    [][/\ now' # now => metrics_cache' = metrics_cache
       /\ (/\ budget' = budget - 1
           /\ ret'.op \in ReadingCalls
           /\ KeyOfCall(ret') \in DOMAIN metrics_cache)
          => \E entry \in {metrics_cache[KeyOfCall(ret')]} :
                IF now < entry.timestamp + 300
                THEN /\ ret'.hit
                     /\ ret'.result = entry.data
                     /\ metrics_cache' = metrics_cache
                ELSE /\ ~ret'.hit
                     /\ ~ret'.raised =>
                           metrics_cache'[KeyOfCall(ret')] =
                               [data |-> ret'.result, timestamp |-> now]]_vars

\* 300 s after a sensitivity sweep stored the snapshot of 0.5,
\* get_metrics(0.5) has missed and stored its own
C22_Witness ==
    /\ ret.op = "get_metrics"
    /\ ret.threshold = Threshold(500)
    /\ ~ret.hit
    /\ now = 300
    /\ <<"threshold_sensitivity", <<>>>> \in DOMAIN metrics_cache
    /\ metrics_cache[<<"threshold_sensitivity", <<>>>>].timestamp = 0
    /\ <<"metrics", <<50>>>> \in DOMAIN metrics_cache
    /\ metrics_cache[<<"metrics", <<50>>>>] =
          [data |-> ret.result, timestamp |-> 300]

\* the roc_curve entry is held and younger than the TTL
RocEntryLive ==
    /\ <<"roc_curve", <<>>>> \in DOMAIN metrics_cache
    /\ now < metrics_cache[<<"roc_curve", <<>>>>].timestamp + CacheTtl

\* C23: a ROC curve result is subject to TTL expiry like the other
\* results: once its cache entry has expired or clear_cache has been
\* called, the next get_roc_curve_data call recomputes the curve from the
\* population table instead of returning the previously memoized value.
C23_RocRecomputedAfterExpiry ==
    [][(/\ budget' = budget - 1
        /\ ret'.op = "get_roc_curve_data"
        /\ ~RocEntryLive)
       => /\ ~ret'.hit
          /\ (df_preprocessed.loaded /\ ~ret'.raised) =>
                /\ <<"roc_curve", <<>>>> \in DOMAIN metrics_cache'
                /\ metrics_cache'[<<"roc_curve", <<>>>>] =
                      [data |-> ret'.result, timestamp |-> now]]_vars

\* ---------------------------------------------------------------------
\* The two sweeps over the grid and single snapshots, three calls deep

MaxSweepCalls == 3

InitSweeps ==
    /\ NotLoaded \/ \E raw \in ServiceRows : Loaded(raw)
    /\ Constructed(MaxSweepCalls)

NextSweeps ==
    \/ \E t \in {Threshold(500)} : get_metrics(t)
    \/ get_threshold_sensitivity
    \/ \E objective \in Objectives : optimize_threshold(objective)
    \/ \E instant \in Instants : Tick(instant)

SpecSweeps == InitSweeps /\ [][NextSweeps]_vars

GridKey(i) == <<"metrics", <<Round2(GridThreshold(i))>>>>

\* the snapshot entry of grid point i is held and younger than the TTL
GridEntryLive(i) ==
    /\ GridKey(i) \in DOMAIN metrics_cache
    /\ now < metrics_cache[GridKey(i)].timestamp + 300

HasRecords == df_preprocessed.loaded /\ Len(df_preprocessed.rows) > 0

\* a sensitivity row and a snapshot report the same rates and balances
SameRow(row, metrics) ==
    /\ row.taxaAprovacao = metrics.taxaAprovacao
    /\ row.taxaInadimplencia = metrics.taxaInadimplencia
    /\ row.saldoLiquido = metrics.saldoLiquido
    /\ row.perdasEvitadas = metrics.perdasEvitadas
    /\ row.oportunidadesPerdidas = metrics.oportunidadesPerdidas

\* one sweep has returned and the other is the call just made
OtherSweepRuns ==
    /\ budget' = budget - 1
    /\ HasRecords
    /\ ~ret.raised
    /\ \/ ret.op = "get_threshold_sensitivity" /\ ret'.op = "optimize_threshold"
       \/ ret.op = "optimize_threshold" /\ ret'.op = "get_threshold_sensitivity"

\* the second sweep scanned nothing: its nine lookups were hits, the
\* snapshot entries are as they were, and the two tables agree
NoScan ==
    /\ ~ret'.raised
    /\ \A i \in 1..GridPoints :
          /\ GridEntryLive(i)
          /\ metrics_cache'[GridKey(i)] = metrics_cache[GridKey(i)]
          /\ IF ret'.op = "optimize_threshold"
             THEN SameRow(ret.result.data[i], ret'.result.all_results[i].metrics)
             ELSE SameRow(ret'.result.data[i], ret.result.all_results[i].metrics)

\* C26 as stated: after one sweep has run on a loaded population, running
\* the other within the TTL performs no population scan: all 9 snapshot
\* lookups are cache hits and both tables report identical rates and
\* balances per threshold. (A snapshot entry is never younger than the
\* sweep that read it, so a live entry shows the sweep ran within the TTL.)
C26_SecondSweepHitsWithinTtl ==
    [][(OtherSweepRuns /\ \E i \in 1..GridPoints : GridEntryLive(i))
       => NoScan]_vars

\* C26, amended: the second sweep performs no population scan when all
\* nine snapshot entries are still younger than the TTL.
C26_SecondSweepHitsWhileEntriesLive ==
    [][(OtherSweepRuns /\ \A i \in 1..GridPoints : GridEntryLive(i))
       => NoScan]_vars

\* optimize_threshold has run 299 s after get_threshold_sensitivity and
\* the nine snapshots are still those of time 0
C26_Witness ==
    /\ ret.op = "optimize_threshold"
    /\ ~ret.raised
    /\ HasRecords
    /\ budget = MaxSweepCalls - 2
    /\ now = 299
    /\ <<"threshold_sensitivity", <<>>>> \in DOMAIN metrics_cache
    /\ \A i \in 1..GridPoints :
          /\ GridKey(i) \in DOMAIN metrics_cache
          /\ metrics_cache[GridKey(i)].timestamp = 0

\* the confidence the three formulas give, in twenty-thousandths, to the
\* ten-thousandth of the probability
ConfidenceFormula(p) ==
    IF Place(p) < 4000
        THEN Min(20000, 16000 + 2 * (2000 - Place(p) \div 2))
    ELSE IF Place(p) > 10000
        THEN Min(20000, 16000 + 2 * (Place(p) \div 2 - 5000))
    ELSE 12000 + Abs(Place(p) \div 2 - 3500)

\* q is at least as far from 0.35 as p, on the same side
FartherFromMiddle(q, p) ==
    \/ Place(q) <= Place(p) /\ Place(p) <= 7000
    \/ Place(q) >= Place(p) /\ Place(p) >= 7000

\* C28: for every probability p in [0,1], _calculate_confidence returns a
\* value in [0.60, 1.0] that never decreases as p moves away from 0.35 in
\* either direction: min(1, 0.80 + (0.20 - p)) for p < 0.20,
\* min(1, 0.80 + (p - 0.50)) for p > 0.50, 0.60 + 0.5 * |p - 0.35|
\* otherwise.
C28_ConfidenceShape ==
    (ret.op = "_calculate_confidence" /\ InUnitInterval(ret.probability)) =>
        /\ 12000 <= ret.result /\ ret.result <= 20000
        /\ ret.result = ConfidenceFormula(ret.probability)
        /\ \A q \in ConfidenceInputs :
              (InUnitInterval(q) /\ FartherFromMiddle(q, ret.probability))
                  => Confidence(q) >= ret.result

\* 0.9 is past the cap: 0.80 + 0.40 is returned as 1.0
C28_Witness ==
    /\ ret.op = "_calculate_confidence"
    /\ ret.probability = Probability(9000, FALSE)
    /\ ret.result = 20000

\* C29: for every population with binary outcomes and every threshold, a
\* freshly computed get_metrics result conserves total exposure:
\* receitaTotal + oportunidadesPerdidas + perdasEvitadas equals the sum
\* of ticket over all records, and perdasInadimplencia <= receitaTotal,
\* so saldoLiquido >= 0 whenever all tickets are non-negative.
C29_ExposureConserved ==
    (/\ FreshMetrics
     /\ \A i \in 1..Len(Rows) : Rows[i].inadimplente \in {0, 1}) =>
        /\ ret.result.receitaTotal + ret.result.oportunidadesPerdidas
              + ret.result.perdasEvitadas
                 = SumCol(Rows, 1..Len(Rows), "ticket")
        /\ (\A i \in 1..Len(Rows) : Rows[i].ticket >= 0) =>
              /\ ret.result.perdasInadimplencia <= ret.result.receitaTotal
              /\ ret.result.saldoLiquido >= 0

\* a snapshot with approved defaulters and with rejected records
C29_Witness ==
    /\ FreshMetrics
    /\ ret.result.perdasInadimplencia > 0
    /\ ret.result.receitaTotal > ret.result.perdasInadimplencia
    /\ ret.result.oportunidadesPerdidas + ret.result.perdasEvitadas > 0

\* ---------------------------------------------------------------------
\* The route /api/v1/analysis/roc_curve with its CacheManager entry, and
\* the restart of the process

MaxRestartCalls == 3

RouteTtl == 3600

\* CacheManager._get_local: the value of the file unless it has expired
GetLocal(files, key, time) ==
    IF key \in DOMAIN files /\ ~(files[key].expires_at < time)
    THEN [found |-> TRUE, value |-> files[key].value]
    ELSE [found |-> FALSE, value |-> NoData]

\* the files _get_local leaves: an expired file is unlinked
AfterGetLocal(files, key, time) ==
    IF key \in DOMAIN files /\ files[key].expires_at < time
    THEN [k \in DOMAIN files \ {key} |-> files[k]]
    ELSE files

\* CacheManager._set_local
SetLocal(files, key, value, ttl, time) ==
    [k \in DOMAIN files \cup {key} |->
        IF k = key THEN [value |-> value, expires_at |-> time + ttl]
        ELSE files[k]]

\* routes/analysis.py get_roc_curve after a miss of the route cache
RocCurveComputed(files, call, time) ==
    /\ metrics_cache' = call.cache
    /\ roc_memo' = call.memo
    /\ cache_dir' = IF call.raised THEN files
                    ELSE SetLocal(files, "roc_curve_data", call.result,
                                  RouteTtl, time)
    /\ ret' = Answered("get_roc_curve", Zero, call)

\* routes/analysis.py get_roc_curve
get_roc_curve ==
    /\ budget > 0
    /\ \E cached \in {GetLocal(cache_dir, "roc_curve_data", now)} :
          IF cached.found
          THEN /\ ret' = Response("get_roc_curve", Zero, 200,
                                  cached.value, TRUE)
               /\ UNCHANGED <<metrics_cache, roc_memo, cache_dir>>
          ELSE \E call \in {GetRocCurveData(df_preprocessed, metrics_cache,
                                            roc_memo, now)} :
                  RocCurveComputed(AfterGetLocal(cache_dir, "roc_curve_data",
                                                 now), call, now)
    /\ budget' = budget - 1
    /\ UNCHANGED <<df_preprocessed, total_clientes, valor_medio, now,
                   threads, store>>

\* the process ends and a new one starts: DataService() loads the table
\* again, everything held in memory starts empty, the cache directory
\* is as the old process left it
restart(raw) ==
    /\ budget > 0
    /\ df_preprocessed' = Preprocess(raw)
    /\ total_clientes' = Len(raw)
    /\ valor_medio' = ValorMedio(raw)
    /\ metrics_cache' = EmptyCache
    /\ roc_memo' = NoMemo
    /\ threads' = NoThreads
    /\ store' = EmptyStore
    /\ ret' = [NoCall EXCEPT !.op = "restart"]
    /\ budget' = budget - 1
    /\ UNCHANGED <<now, cache_dir>>

InitRestart ==
    /\ \E raw \in {ExampleRows, MixedRows} : Loaded(raw)
    /\ Constructed(MaxRestartCalls)

NextRestart ==
    \/ get_roc_curve
    \/ get_roc_curve_data
    \/ \E t \in {Threshold(500)} : get_metrics(t)
    \/ \E t \in {Threshold(500)} : get_confusion_matrix(t)
    \/ get_threshold_sensitivity
    \/ \E raw \in {ExampleRows, MixedRows} : restart(raw)
    \/ \E instant \in Instants : Tick(instant)

SpecRestart == InitRestart /\ [][NextRestart]_vars

Requests ==
    {"get_metrics", "get_confusion_matrix", "get_threshold_sensitivity",
     "get_roc_curve_data", "get_roc_curve"}

\* C24: cache state does not survive a process restart: after a restart
\* no result cached by the previous process (metrics, confusion matrix,
\* sensitivity table or ROC curve) is served; the first request for each
\* operation recomputes from the freshly loaded population table.
C24_NothingServedAcrossRestart ==
    [][(/\ ret.op = "restart"
        /\ budget' = budget - 1
        /\ ret'.op \in Requests)
       => ~ret'.hit]_vars

\* the same statement for the caches the data service holds in memory
MemoryCachesLostOnRestart ==
    [][(/\ ret.op = "restart"
        /\ budget' = budget - 1
        /\ ret'.op \in Requests \ {"get_roc_curve"})
       => ~ret'.hit]_vars

\* ---------------------------------------------------------------------
\* get_metrics run by several threads with no lock. A thread is at one
\* of the points of the method between which another thread can run:
\* before the cache lookup, before the computation, before the save.

MaxThreads == 2

Threads == 1..MaxThreads

\* hit: the lookup of the call found its entry
InFlight(pc, t, result, hit) ==
    [pc |-> pc, threshold |-> t, result |-> result, hit |-> hit]

\* the thread th with its call replaced
Advance(th, call) ==
    [k \in DOMAIN threads \cup {th} |-> IF k = th THEN call ELSE threads[k]]

At(th, pc) == th \in DOMAIN threads /\ threads[th].pc = pc

\* a thread enters get_metrics(t)
metrics_call(th, t) ==
    /\ th \notin DOMAIN threads
    /\ threads' = Advance(th, InFlight("lookup", t, NoData, FALSE))
    /\ UNCHANGED <<df_preprocessed, total_clientes, valor_medio,
                   metrics_cache, roc_memo, now, budget, ret, cache_dir,
                   store>>

\* "cached = self._get_from_cache(cache_key)" and the two early returns
metrics_lookup(th) ==
    /\ At(th, "lookup")
    /\ \E cached \in {GetFromCache(metrics_cache,
                          CacheKey("metrics", <<Round2(threads[th].threshold)>>),
                          now)} :
          threads' = Advance(th,
              IF cached.found
                  THEN InFlight("returned", threads[th].threshold, cached.data,
                                TRUE)
              ELSE IF ~df_preprocessed.loaded \/ Len(df_preprocessed.rows) = 0
                  THEN InFlight("returned", threads[th].threshold, EmptyMetrics,
                                FALSE)
              ELSE InFlight("compute", threads[th].threshold, NoData, FALSE))
    /\ UNCHANGED <<df_preprocessed, total_clientes, valor_medio,
                   metrics_cache, roc_memo, now, budget, ret, cache_dir,
                   store>>

\* the masks and the sums, up to "result = {...}"
metrics_compute(th) ==
    /\ At(th, "compute")
    /\ threads' = Advance(th,
          IF MetricsRaises(df_preprocessed.rows, total_clientes,
                           threads[th].threshold)
          THEN InFlight("raised", threads[th].threshold, NoData, FALSE)
          ELSE InFlight("save", threads[th].threshold,
                        ComputeMetrics(df_preprocessed.rows, total_clientes,
                                       valor_medio, threads[th].threshold),
                        FALSE))
    /\ UNCHANGED <<df_preprocessed, total_clientes, valor_medio,
                   metrics_cache, roc_memo, now, budget, ret, cache_dir,
                   store>>

\* "self._save_to_cache(cache_key, result); return result"
metrics_save(th) ==
    /\ At(th, "save")
    /\ metrics_cache' =
          SaveToCache(metrics_cache,
                      CacheKey("metrics", <<Round2(threads[th].threshold)>>),
                      threads[th].result, now)
    /\ threads' = Advance(th, InFlight("returned", threads[th].threshold,
                                       threads[th].result, FALSE))
    /\ UNCHANGED <<df_preprocessed, total_clientes, valor_medio, roc_memo,
                   now, budget, ret, cache_dir, store>>

InitThreads ==
    /\ \E raw \in ServiceRows : Loaded(raw)
    /\ Constructed(MaxCalls)

NextThreads ==
    \/ \E th \in Threads, t \in {Threshold(499), Threshold(501)} :
          metrics_call(th, t)
    \/ \E th \in Threads : metrics_lookup(th)
    \/ \E th \in Threads : metrics_compute(th)
    \/ \E th \in Threads : metrics_save(th)
    \/ \E instant \in Instants : Tick(instant)

SpecThreads == InitThreads /\ [][NextThreads]_vars

\* every thread has called get_metrics with the threshold t and returned
AllReturned(t) ==
    /\ DOMAIN threads = Threads
    /\ \A th \in Threads :
          threads[th].pc = "returned" /\ threads[th].threshold = t

\* C25: under any interleaving of concurrent get_metrics calls for the
\* same threshold with no lock, every call returns the same snapshot, the
\* one computed at that threshold, and the cache ends with a single entry
\* for the key, holding that snapshot.
C25_RaceIsIdempotent ==
    \A t \in {Threshold(499), Threshold(501)} :
        (AllReturned(t) /\ HasRecords) =>
            /\ \A th \in Threads :
                  threads[th].result =
                      ComputeMetrics(Rows, total_clientes, valor_medio, t)
            /\ DOMAIN metrics_cache = {<<"metrics", <<Round2(t)>>>>}
            /\ metrics_cache[<<"metrics", <<Round2(t)>>>>].data =
                  ComputeMetrics(Rows, total_clientes, valor_medio, t)

\* both threads missed at time 0, so the second looked up before the
\* first had saved, and both computed and saved
C25_Witness ==
    /\ AllReturned(Threshold(501))
    /\ HasRecords
    /\ now = 0
    /\ \A th \in Threads : ~threads[th].hit

\* ---------------------------------------------------------------------
\* RateLimitStore and RateLimitMiddleware.dispatch. Times are seconds of
\* datetime.utcnow(); the calls of utcnow within one dispatch read the
\* same second.

MaxRequests == 11

MaxClock == 3601

WHITELIST == {"127.0.0.1", "localhost"}

ClientIps == {"203.0.113.7", "127.0.0.1"}

LimitedPaths == {"/api/v1/auth/token", "/api/v1/predict/batch"}

\* the moments a request can arrive at: the start, the end of the
\* 300 s window, the end of a 60 min block and the second after it
RateInstants == {0, 300, 3600, 3601}

\* self.requests[ip][endpoint], an empty list when never touched
RequestsOf(st, ip, endpoint) ==
    IF <<ip, endpoint>> \in DOMAIN st.requests
    THEN st.requests[<<ip, endpoint>>] ELSE <<>>

\* [ts for ts in list if ts > cutoff]
RECURSIVE After(_, _)
After(list, cutoff) ==
    IF list = <<>> THEN <<>>
    ELSE IF Head(list) > cutoff
        THEN <<Head(list)>> \o After(Tail(list), cutoff)
    ELSE After(Tail(list), cutoff)

\* get_request_count
GetRequestCount(st, ip, endpoint, window_seconds, time) ==
    Len(After(RequestsOf(st, ip, endpoint), time - window_seconds))

\* the list of an (ip, endpoint) replaced
WithRequests(st, ip, endpoint, list) ==
    [st EXCEPT !.requests =
        [k \in DOMAIN st.requests \cup {<<ip, endpoint>>} |->
            IF k = <<ip, endpoint>> THEN list ELSE st.requests[k]]]

\* add_request: append, then drop what is older than one hour
AddRequest(st, ip, endpoint, time) ==
    WithRequests(st, ip, endpoint,
                 After(Append(RequestsOf(st, ip, endpoint), time),
                       time - 3600))

\* block_ip
BlockIp(st, ip, duration_minutes, time) ==
    [st EXCEPT !.blocked_ips =
        [k \in DOMAIN st.blocked_ips \cup {ip} |->
            IF k = ip THEN time + 60 * duration_minutes
            ELSE st.blocked_ips[k]]]

\* is_blocked, the answer
IsBlocked(st, ip, time) ==
    ip \in DOMAIN st.blocked_ips /\ ~(time > st.blocked_ips[ip])

\* is_blocked, the store it leaves: an expired block is deleted
AfterIsBlocked(st, ip, time) ==
    IF ip \in DOMAIN st.blocked_ips /\ time > st.blocked_ips[ip]
    THEN [st EXCEPT !.blocked_ips =
             [k \in DOMAIN st.blocked_ips \ {ip} |-> st.blocked_ips[k]]]
    ELSE st

\* get_remaining_block_time
RemainingBlockTime(st, ip, time) ==
    IF st.blocked_ips[ip] - time < 0 THEN 0 ELSE st.blocked_ips[ip] - time

\* what dispatch answers: retry_after is -1 without a Retry-After header
Reply(st, status, forwarded, retry_after) ==
    [store |-> st, status |-> status, forwarded |-> forwarded,
     retry_after |-> retry_after]

\* dispatch from "limit_config = RateLimitConfig.get_limit(endpoint)" on
DispatchLimited(st, ip, endpoint, limit_config, time) ==
    IF GetRequestCount(st, ip, endpoint, limit_config.window, time)
          >= limit_config.requests
    THEN Reply(BlockIp(WithRequests(st, ip, endpoint,
                                    RequestsOf(st, ip, endpoint)),
                       ip, limit_config.block_duration, time),
               429, FALSE, limit_config.window)
    ELSE Reply(AddRequest(st, ip, endpoint, time), 200, TRUE, -1)

\* RateLimitMiddleware.dispatch; a forwarded request is answered 200
Dispatch(st, ip, endpoint, time) ==
    IF ip \in WHITELIST THEN Reply(st, 200, TRUE, -1)
    ELSE IF IsBlocked(st, ip, time)
        THEN Reply(st, 429, FALSE, RemainingBlockTime(st, ip, time))
    ELSE DispatchLimited(AfterIsBlocked(st, ip, time), ip, endpoint,
                         GetLimit(endpoint), time)

dispatch(ip, endpoint) ==
    /\ budget > 0
    /\ \E reply \in {Dispatch(store, ip, endpoint, now)} :
          /\ store' = reply.store
          /\ ret' = [op |-> "dispatch", ip |-> ip, endpoint |-> endpoint,
                     status |-> reply.status, forwarded |-> reply.forwarded,
                     retry_after |-> reply.retry_after, raised |-> FALSE]
    /\ budget' = budget - 1
    /\ UNCHANGED <<df_preprocessed, total_clientes, valor_medio,
                   metrics_cache, roc_memo, now, cache_dir, threads>>

\* time passes before the next request
Wait(instant) ==
    /\ budget > 0
    /\ now < instant
    /\ instant <= MaxClock
    /\ now' = instant
    /\ UNCHANGED <<df_preprocessed, total_clientes, valor_medio,
                   metrics_cache, roc_memo, budget, ret, cache_dir, threads,
                   store>>

InitRate ==
    /\ NotLoaded
    /\ Constructed(MaxRequests)

NextRate ==
    \/ \E ip \in ClientIps, endpoint \in LimitedPaths : dispatch(ip, endpoint)
    \/ \E instant \in RateInstants : Wait(instant)

SpecRate == InitRate /\ [][NextRate]_vars

\* ---------------------------------------------------------------------
\* Claims about the rate limiter

\* the limit written in ENDPOINT_LIMITS for a path, the looked-up one for
\* a path that has no entry of its own
EndpointConfig(endpoint) ==
    IF WrittenFor(endpoint) = {} THEN GetLimit(endpoint)
    ELSE ENDPOINT_LIMITS[CHOOSE i \in WrittenFor(endpoint) : TRUE].config

\* a step of dispatch for an address outside the whitelist
LimitedDispatch ==
    /\ budget' = budget - 1
    /\ ret'.op = "dispatch"
    /\ ret'.ip \notin WHITELIST

BlockedNow(ip) ==
    ip \in DOMAIN store.blocked_ips /\ now <= store.blocked_ips[ip]

Refusal == ret'.status = 429 /\ ~ret'.forwarded /\ ret'.retry_after >= 0

\* what a request of ip to endpoint does under the limit config: refused
\* and nothing written while ip is blocked; else refused and blocked for
\* the block duration when the count in the window has reached the
\* limit; else forwarded, recorded and no block left behind
BlockingStep(ip, endpoint, config) ==
    /\ BlockedNow(ip) => (Refusal /\ store' = store)
    /\ (~BlockedNow(ip)
        /\ GetRequestCount(store, ip, endpoint, config.window, now)
              >= config.requests) =>
          /\ Refusal
          /\ ip \in DOMAIN store'.blocked_ips
          /\ store'.blocked_ips[ip] = now + 60 * config.block_duration
          /\ store'.requests = store.requests
    /\ (~BlockedNow(ip)
        /\ GetRequestCount(store, ip, endpoint, config.window, now)
              < config.requests) =>
          /\ ret'.status = 200 /\ ret'.forwarded
          /\ ip \notin DOMAIN store'.blocked_ips
          /\ RequestsOf(store', ip, endpoint)
                = After(Append(RequestsOf(store, ip, endpoint), now),
                        now - 3600)

\* C27: for an address outside the whitelist, the first request that
\* finds the endpoint's count in the window at or above the endpoint's
\* limit is answered 429 and blocks the address for the endpoint's block
\* duration; until the block expires every request of the address, to any
\* endpoint, is answered 429 with Retry-After, is not forwarded and not
\* recorded; once the expiry time has passed the block entry is removed
\* and requests are measured against the limit again.
C27_BlockAfterLimit ==
    [][LimitedDispatch =>
          BlockingStep(ret'.ip, ret'.endpoint,
                       EndpointConfig(ret'.endpoint))]_vars

\* the same rule under the limit that get_limit hands to dispatch
DispatchFollowsLookedUpLimit ==
    [][LimitedDispatch =>
          BlockingStep(ret'.ip, ret'.endpoint, GetLimit(ret'.endpoint))]_vars

\* a block is entered at the limit, holds through its last second and is
\* gone with the first request after it
BlockLifecycleSeen ==
    /\ ret.op = "dispatch" /\ ret.ip \notin WHITELIST
    /\ ret.endpoint = "/api/v1/auth/token"
    /\ now = 3601 /\ ret.forwarded
    /\ ret.ip \notin DOMAIN store.blocked_ips
    /\ Len(After(RequestsOf(store, ret.ip, ret.endpoint), -1)) = 6

\* the requests of ip to endpoint recorded in the window that ends now
InWindow(st, ip, endpoint, window) ==
    Len(After(RequestsOf(st, ip, endpoint), now - window))

\* every recorded list stays within its limit in the window ending now
WithinLimit(k, config) ==
    InWindow(store, k[1], k[2], config.window) <= config.requests

\* C30: for every address outside the whitelist and every endpoint, the
\* requests forwarded within a sliding window of the endpoint's window
\* length never exceed the endpoint's configured limit, and a request
\* answered 429 is never added to the recorded timestamps.
C30_ForwardedWithinConfiguredLimit ==
    /\ [](\A k \in DOMAIN store.requests :
             WithinLimit(k, EndpointConfig(k[2])))
    /\ [][(LimitedDispatch /\ ret'.status = 429) =>
             store'.requests = store.requests]_vars

\* the same bound under the limit that get_limit hands to dispatch
ForwardedWithinLookedUpLimit ==
    /\ [](\A k \in DOMAIN store.requests : WithinLimit(k, GetLimit(k[2])))
    /\ [][(LimitedDispatch /\ ret'.status = 429) =>
             store'.requests = store.requests]_vars

\* the eleventh request to the batch route within one window is forwarded
EleventhBatchForwarded ==
    /\ ret.op = "dispatch" /\ ret.forwarded /\ ret.ip \notin WHITELIST
    /\ ret.endpoint = "/api/v1/predict/batch"
    /\ InWindow(store, ret.ip, ret.endpoint, 60) = 11

====
